---- MODULE Spec2Model ----
(***************************************************************************)
(* Model of the flare-emissary core: the event store and cursor written by *)
(* the block poller (crates/indexer/src/poller.rs), the sliding-window     *)
(* reorg detector (crates/indexer/src/reorg.rs), the log decoders          *)
(* (crates/decoders/src), the hysteresis engine                            *)
(* (crates/engine/src/hysteresis.rs) and the alert pipeline                *)
(* (crates/engine/src/matcher.rs, cooldown.rs, processor.rs).              *)
(*                                                                         *)
(* The specifications share the variables:                                 *)
(*   SpecStore   the public store operations of BlockPoller called         *)
(*               directly (persist_events, rollback_events_from,           *)
(*               update_indexer_state), as crates/indexer/tests do;        *)
(*   Spec        the polling loop BlockPoller::run against a chain that    *)
(*               grows and reorganises;                                    *)
(*   SpecLive    Spec when a cycle in which no call fails is always        *)
(*               eventually executed;                                      *)
(*   SpecProgress  SpecLive when blocks are always eventually mined;       *)
(*   SpecHyst    HysteresisEngine::check / reset called with any inputs;   *)
(*   SpecProc    EventProcessor::process_event with failures at every      *)
(*               point, and cooldown keys that expire;                     *)
(*   SpecStreak  process_event on events from height 0 on, the streaks     *)
(*               followed;                                                 *)
(*   SpecRace    process_event split into its query and its loop, a        *)
(*               subscription update between them;                         *)
(*   SpecCool    CooldownEngine::check_and_set called by two tasks;        *)
(*   SpecClear   CooldownEngine::check_and_set / clear and                 *)
(*               SubscriptionService::update called directly;              *)
(*   SpecMatch   AlertMatcher::find_matching_subscriptions while           *)
(*               subscriptions are switched on and off;                    *)
(*   SpecEval    AlertMatcher::evaluate_threshold called directly;         *)
(*   SpecDecode  DecoderRegistry::decode called directly.                  *)
(***************************************************************************)
EXTENDS Integers, Sequences, FiniteSets, TLC

VARIABLES
    events,          \* table indexed_events, in insertion (serial id) order
    indexer_state,   \* table indexer_state: chain -> last_block, or NoCursor
    lastOp,          \* history: the store operation called last (SpecStore)
    head, ver, kind, \* the chain oracle: head height, fork version and body of each block
    pc,              \* the poller task: "stopped" (not running) or "loop"
    current_block,   \* BlockPoller::run's local current_block
    window,          \* ReorgDetector.window
    runStart,        \* history: what run() read when it started
    lastCycle,       \* history: the loop cycle executed last
    lastReorg,       \* history: the reorg reported last and the chain it was reported on
    handed,          \* events passed to EventProcessor::process_event by the poller
    subscriptions,   \* the subscriptions: id -> threshold_config
    states,          \* HysteresisEngine.states
    lastCheck,       \* history: the last HysteresisEngine call and its result
    obs,             \* history: results of the consecutive-height calls since no state
    streak,          \* history: consecutive heights observed since the last fire or reset
    cleared,         \* history: the streak was given up (check(sub, false, .), or a fire
                     \* the cooldown suppressed) and none completed since
    sub_rows,        \* table subscriptions: id -> address_id, event_type, active,
                     \* channel_id
    kv,              \* the key/value store: subscription:cooldown:{id} -> TTL, or None
    alerts,          \* table alerts, in insertion order
    notifications,   \* table notifications, in insertion order
    seen,            \* history: per subscription and height, how its matched events fared
    inWindow,        \* history: alerts written per subscription since its key last expired
    lastProc,        \* history: the process_event call made last
    coolpc,          \* the direct callers of check_and_set: where each call is
    grants,          \* history: calls answered true per key since the key last expired
    lastCool,        \* history: the SET command executed last
    lastCall         \* history: the last direct call of a pure function and its result

vars == <<events, indexer_state, lastOp, head, ver, kind, pc, current_block, window,
          runStart, lastCycle, lastReorg, handed, subscriptions, states, lastCheck,
          obs, streak, cleared, sub_rows, kv, alerts, notifications, seen, inWindow,
          lastProc, coolpc, grants, lastCool, lastCall>>

storeVars == <<events, indexer_state, lastOp>>
chainVars == <<head, ver, kind>>
pollerVars == <<pc, current_block, window, runStart, lastCycle, lastReorg, handed>>
hystVars == <<subscriptions, states, lastCheck, obs, streak, cleared>>
procVars == <<sub_rows, kv, alerts, notifications, seen, inWindow, lastProc, coolpc,
              grants, lastCool, lastCall>>

-----------------------------------------------------------------------------
(* Bounds *)

MaxBlock == 2       \* block numbers of directly presented events: 1..MaxBlock
MaxBatch == 2       \* events per direct persist_events call
MaxHeight == 3      \* heights of the modelled chain: 0..MaxHeight
MaxVer == 1         \* fork versions per height: 0..MaxVer
ReorgWindow == 2    \* BlockPoller::new's reorg_window (INDEXER_REORG_WINDOW)
MaxHystHeight == 4  \* block numbers passed to check: 0..MaxHystHeight
MaxObs == 4         \* recorded results per subscription

-----------------------------------------------------------------------------
(* Values *)

Chains == {"flare", "songbird"}
NoCursor == -1      \* no row in indexer_state for the chain
None == <<>>        \* Option::None; Some(x) is <<x>>
Some(x) == <<x>>
NoTx == <<>>        \* the empty tx_hash String of unwrap_or_default()

Max(a, b) == IF a >= b THEN a ELSE b
Min(a, b) == IF a <= b THEN a ELSE b

-----------------------------------------------------------------------------
(* The event store: indexed_events *)

\* COALESCE(log_index, -1)
Coalesce(log_index) == IF log_index = None THEN -1 ELSE log_index[1]

\* The unique index of indexed_events that ON CONFLICT (tx_hash, log_index) hits.
UniqueKey(row) == <<row.tx_hash, Coalesce(row.log_index)>>

Row(e) ==
    [tx_hash |-> e.tx_hash, log_index |-> e.log_index, block_number |-> e.block_number,
     chain |-> e.chain, address |-> e.address, event_type |-> e.event_type,
     is_reorged |-> FALSE]

InsertAlways(store, e) == Append(store, Row(e))

InsertOrReplace(store, e) ==
    IF \E i \in 1..Len(store) : UniqueKey(store[i]) = UniqueKey(Row(e))
    THEN [i \in 1..Len(store) |->
             IF UniqueKey(store[i]) = UniqueKey(Row(e)) THEN Row(e) ELSE store[i]]
    ELSE Append(store, Row(e))

\* One INSERT ... VALUES (..., false) ON CONFLICT (tx_hash, log_index) DO NOTHING
InsertEvent(store, e) ==
    IF \E i \in 1..Len(store) : UniqueKey(store[i]) = UniqueKey(Row(e))
    THEN store
    ELSE Append(store, Row(e))

RECURSIVE InsertAll(_, _)
InsertAll(store, evs) ==
    IF evs = <<>> THEN store
    ELSE InsertAll(InsertEvent(store, Head(evs)), Tail(evs))

Reverse(s) == [i \in 1..Len(s) |-> s[Len(s) + 1 - i]]

persist_events_reversed(store, evs) == InsertAll(store, Reverse(evs))

\* BlockPoller::persist_events: one insert per event, in the order of the slice
persist_events(store, evs) == InsertAll(store, evs)

rollback_ignores_chain(store, from_block, chain) ==
    [i \in 1..Len(store) |->
        IF store[i].block_number >= from_block
        THEN [store[i] EXCEPT !.is_reorged = TRUE]
        ELSE store[i]]

\* BlockPoller::rollback_events_from:
\* UPDATE indexed_events SET is_reorged = true WHERE block_number >= $1 AND chain = $2
rollback_events_from(store, from_block, chain) ==
    [i \in 1..Len(store) |->
        IF store[i].block_number >= from_block /\ store[i].chain = chain
        THEN [store[i] EXCEPT !.is_reorged = TRUE]
        ELSE store[i]]

update_indexer_state_minus_one(state, chain, block_number) ==
    [state EXCEPT ![chain] = Max(block_number - 1, 0)]

\* BlockPoller::update_indexer_state: upsert of (chain, last_block)
update_indexer_state(state, chain, block_number) ==
    [state EXCEPT ![chain] = block_number]

\* BlockPoller::get_last_indexed_block
get_last_indexed_block(state, chain) ==
    IF state[chain] = NoCursor THEN None ELSE Some(state[chain])

-----------------------------------------------------------------------------
(* SpecStore: the store operations called directly *)

\* (tx_hash, log_index) of the presented events: no hash and no index, a hash and
\* no index, a hash and index 0
KeySamples == {<<NoTx, None>>, <<<<1, 0>>, None>>, <<<<1, 0>>, Some(0)>>}

EventSamples ==
    {[tx_hash |-> k[1], log_index |-> k[2], block_number |-> b, chain |-> c,
      address |-> "0xa", event_type |-> "price_epoch_finalized"] :
        k \in KeySamples, b \in 1..MaxBlock, c \in Chains}

RECURSIVE SeqsUpTo(_, _)
SeqsUpTo(S, n) ==
    IF n = 0 THEN {<<>>}
    ELSE LET shorter == SeqsUpTo(S, n - 1)
         IN  shorter \cup {Append(s, x) : s \in {t \in shorter : Len(t) = n - 1}, x \in S}

NoOp == [op |-> "none", chain |-> "flare", from |-> 0, nullAgain |-> FALSE,
         onReorged |-> FALSE]

\* poller.persist_events(&events) on a poller of either chain
\* The presented slices: up to MaxBatch events of one block, as poll_block returns them
BatchSamples ==
    {evs \in SeqsUpTo(EventSamples, MaxBatch) \ {<<>>} :
        \A k \in 1..Len(evs) : /\ evs[k].block_number = evs[1].block_number
                                /\ evs[k].chain = evs[1].chain}

PersistEventsCall ==
    \E evs \in BatchSamples :
        /\ events' = persist_events(events, evs)
        /\ lastOp' = [NoOp EXCEPT
                !.op = "persist",
                !.nullAgain = \E k \in 1..Len(evs), i \in 1..Len(events) :
                                 /\ evs[k].log_index = None
                                 /\ events[i].log_index = None
                                 /\ events[i].tx_hash = evs[k].tx_hash,
                !.onReorged = \E k \in 1..Len(evs), i \in 1..Len(events) :
                                 /\ UniqueKey(events[i]) = UniqueKey(Row(evs[k]))
                                 /\ events[i].is_reorged]
        /\ UNCHANGED indexer_state

\* poller.rollback_events_from(r) on the poller of chain c
RollbackCall ==
    \E c \in Chains, r \in 1..(MaxBlock + 1) :
        /\ events' = rollback_events_from(events, r, c)
        /\ lastOp' = [NoOp EXCEPT !.op = "rollback", !.chain = c, !.from = r]
        /\ UNCHANGED indexer_state

-----------------------------------------------------------------------------
(* The chain oracle: what the RPC provider answers *)

PollerChain == "flare"   \* the chain main() builds the poller for
Heights == 0..MaxHeight
Kinds == {"empty", "logs"}

\* Which heights carry logs: the even ones or the odd ones
Layouts ==
    {[h \in Heights |-> IF h % 2 = p THEN "logs" ELSE "empty"] : p \in {0, 1}}

NoReorg == [from |-> -1, at |-> -1]

\* Block hashes: the block at height h on fork version v. A block's parent is the
\* block that was canonical one height below when it was produced, and a
\* reorganisation replaces a whole suffix, so the canonical chain stays linked.
Hash(h) == <<h, ver[h]>>
ParentHash(h) == IF h = 0 THEN <<>> ELSE <<h - 1, ver[h - 1]>>

RawLog(tx, li, topic0) ==
    [transaction_hash |-> tx, log_index |-> li, topic0 |-> topic0, address |-> "0xa"]

\* The logs eth_getLogs returns for the block (h, v) of kind k, in log order.
\* A replacing block (v > 0) re-includes the first transaction of the block it
\* replaces at the same log index and adds a transaction of its own.
BlockLogs(h, v, k) ==
    IF v = 0
    THEN IF k = "empty" THEN <<>>
         ELSE <<RawLog(Some(<<h, 0>>), Some(0), "PriceEpochFinalized"),
                RawLog(Some(<<h, 0>>), Some(1), "Transfer"),
                RawLog(Some(<<h, 0>>), Some(2), "VotePowerChanged")>>
    ELSE IF k = "empty" THEN <<RawLog(Some(<<h, v>>), Some(0), "VotePowerChanged")>>
         ELSE <<RawLog(Some(<<h, 0>>), Some(0), "PriceEpochFinalized"),
                RawLog(Some(<<h, v>>), Some(1), "VotePowerChanged")>>

\* provider.get_block_by_number(h): None above the head
get_block_by_number(h) ==
    IF h > head THEN None
    ELSE Some([hash |-> Hash(h), parent_hash |-> ParentHash(h)])

\* provider.get_logs(from = to = h)
get_logs(h) == IF h > head THEN <<>> ELSE BlockLogs(h, ver[h], kind[h])

\* A new block is produced on top of the head.
MineBlock ==
    /\ head < MaxHeight
    /\ head' = head + 1
    /\ UNCHANGED <<ver, kind, storeVars, pollerVars, hystVars, procVars>>

\* The chain reorganises: the blocks from height g to the head are replaced.
ChainReorg ==
    /\ \E g \in 1..head :
        /\ \A h \in g..head : ver[h] < MaxVer
        /\ ver' = [h \in Heights |-> IF h >= g /\ h <= head THEN ver[h] + 1 ELSE ver[h]]
    /\ lastReorg' = NoReorg
    /\ UNCHANGED <<head, kind, storeVars, pc, current_block, window, runStart, lastCycle,
                   handed, hystVars, procVars>>

-----------------------------------------------------------------------------
(* ReorgDetector *)

\* window.iter().position(|(num, _)| *num == n): the first index holding height n, or 0
Position(win, n) ==
    IF \E i \in 1..Len(win) : win[i][1] = n
    THEN CHOOSE i \in 1..Len(win) :
            /\ win[i][1] = n
            /\ \A j \in 1..(i - 1) : win[j][1] # n
    ELSE 0

StillCanonical(entry) ==
    /\ get_block_by_number(entry[1]) # None
    /\ get_block_by_number(entry[1])[1].hash = entry[2]

find_divergence_point_last_good(win) ==
    IF \E i \in 1..Len(win) : StillCanonical(win[i])
    THEN LET i == CHOOSE i \in 1..Len(win) :
                    /\ StillCanonical(win[i])
                    /\ \A j \in (i + 1)..Len(win) : ~StillCanonical(win[j])
         IN  win[i][1]
    ELSE IF win = <<>> THEN 0 ELSE win[1][1]

\* ReorgDetector::find_divergence_point: newest to oldest, the first stored height
\* whose stored hash is still canonical, plus one; else the oldest stored height
find_divergence_point(win) ==
    IF \E i \in 1..Len(win) : StillCanonical(win[i])
    THEN LET i == CHOOSE i \in 1..Len(win) :
                    /\ StillCanonical(win[i])
                    /\ \A j \in (i + 1)..Len(win) : ~StillCanonical(win[j])
         IN  win[i][1] + 1
    ELSE IF win = <<>> THEN 0 ELSE win[1][1]

check_and_record_no_evict(win, block_number, block_hash, parent_hash, oracle_fails) ==
    LET pos == IF block_number > 0 THEN Position(win, block_number - 1) ELSE 0 IN
    IF pos # 0 /\ parent_hash # win[pos][2]
    THEN IF oracle_fails
         THEN [err |-> TRUE, window |-> win, reorg |-> None]
         ELSE LET reorg_start == find_divergence_point(win)
              IN  [err |-> FALSE,
                   window |-> SelectSeq(win, LAMBDA e : e[1] < reorg_start),
                   reorg |-> Some(reorg_start)]
    ELSE [err |-> FALSE, window |-> Append(win, <<block_number, block_hash>>),
          reorg |-> None]

check_and_record_retains_first(win, block_number, block_hash, parent_hash, oracle_fails) ==
    LET pos == IF block_number > 0 THEN Position(win, block_number - 1) ELSE 0 IN
    IF pos # 0 /\ parent_hash # win[pos][2]
    THEN IF oracle_fails
         THEN [err |-> TRUE, window |-> SelectSeq(win, LAMBDA e : e[1] < block_number - 1),
               reorg |-> None]
         ELSE LET reorg_start == find_divergence_point(win)
              IN  [err |-> FALSE,
                   window |-> SelectSeq(win, LAMBDA e : e[1] < reorg_start),
                   reorg |-> Some(reorg_start)]
    ELSE LET pushed == Append(win, <<block_number, block_hash>>)
         IN  [err |-> FALSE,
              window |-> IF Len(pushed) > ReorgWindow THEN Tail(pushed) ELSE pushed,
              reorg |-> None]

\* ReorgDetector::check_and_record. oracle_fails: a get_block_by_number of the
\* divergence walk returns an error. Result: the new window and Ok(Some(r)) as
\* reorg = <<r>>, Ok(None) as reorg = <<>>, Err as err = TRUE.
check_and_record(win, block_number, block_hash, parent_hash, oracle_fails) ==
    LET pos == IF block_number > 0 THEN Position(win, block_number - 1) ELSE 0 IN
    IF pos # 0 /\ parent_hash # win[pos][2]
    THEN IF oracle_fails
         THEN [err |-> TRUE, window |-> win, reorg |-> None]
         ELSE LET reorg_start == find_divergence_point(win)
              IN  [err |-> FALSE,
                   window |-> SelectSeq(win, LAMBDA e : e[1] < reorg_start),
                   reorg |-> Some(reorg_start)]
    ELSE LET pushed == Append(win, <<block_number, block_hash>>)
         IN  [err |-> FALSE,
              window |-> IF Len(pushed) > ReorgWindow THEN Tail(pushed) ELSE pushed,
              reorg |-> None]

-----------------------------------------------------------------------------
(* Decoding *)

\* topic0 signatures the protocol decoders of DecoderRegistry::new() handle
EventTypeOf(topic0) ==
    CASE topic0 = "PriceEpochFinalized" -> Some("price_epoch_finalized")
      [] topic0 = "VotePowerChanged" -> Some("vote_power_changed")
      [] OTHER -> None

\* DecoderRegistry::decode on the strict registry: None for an unknown topic0;
\* the decoders leave tx_hash and log_index blank
decode(log, block_number, chain) ==
    IF EventTypeOf(log.topic0) = None THEN None
    ELSE Some([tx_hash |-> NoTx, log_index |-> None, block_number |-> block_number,
               chain |-> chain, address |-> log.address,
               event_type |-> EventTypeOf(log.topic0)[1]])

\* poll_block's decode loop: the decoded events in log order, each stamped with
\* the tx_hash (the empty String when absent) and the log_index of its log
RECURSIVE DecodeLogs(_, _, _)
DecodeLogs(logs, block_number, chain) ==
    IF logs = <<>> THEN <<>>
    ELSE LET log == Head(logs)
             d == decode(log, block_number, chain)
             rest == DecodeLogs(Tail(logs), block_number, chain)
         IN  IF d = None THEN rest
             ELSE <<[d[1] EXCEPT
                        !.tx_hash = IF log.transaction_hash = None THEN NoTx
                                    ELSE log.transaction_hash[1],
                        !.log_index = log.log_index]>> \o rest

\* The topic0 signatures (keccak256 of the event declarations) of each protocol
\* decoder, and the event type each stands for
FtsoSignatures ==
    [PriceEpochFinalized |-> "price_epoch_finalized",
     VotePowerChanged |-> "vote_power_changed",
     RewardEpochStarted |-> "reward_epoch_started"]

FdcSignatures ==
    [AttestationRequested |-> "attestation_requested",
     AttestationProved |-> "attestation_proved",
     RoundFinalized |-> "round_finalized"]

FassetSignatures ==
    [CollateralDeposited |-> "collateral_deposited",
     CollateralWithdrawn |-> "collateral_withdrawn",
     MintingExecuted |-> "minting_executed",
     RedemptionRequested |-> "redemption_requested",
     LiquidationStarted |-> "liquidation_started"]

DecodedAs(log, block_number, chain, event_type) ==
    Some([tx_hash |-> NoTx, log_index |-> None, block_number |-> block_number,
          chain |-> chain, address |-> log.address, event_type |-> event_type])

\* FtsoDecoder::decode, FdcDecoder::decode, FassetDecoder::decode: None for a log
\* without topics (topics().first()?) and for a topic0 outside the signatures
ProtocolDecode(signatures, log, block_number, chain) ==
    IF log.topics = <<>> THEN None
    ELSE IF log.topics[1] \in DOMAIN signatures
    THEN DecodedAs(log, block_number, chain, signatures[log.topics[1]])
    ELSE None

\* GenericDecoder::decode: every log with a topic
GenericDecode(log, block_number, chain) ==
    IF log.topics = <<>> THEN None
    ELSE DecodedAs(log, block_number, chain, "generic_event")

\* EventDecoder::decode of the decoder named d
DecoderDecode(d, log, block_number, chain) ==
    CASE d = "ftso" -> ProtocolDecode(FtsoSignatures, log, block_number, chain)
      [] d = "fdc" -> ProtocolDecode(FdcSignatures, log, block_number, chain)
      [] d = "fasset" -> ProtocolDecode(FassetSignatures, log, block_number, chain)
      [] d = "generic" -> GenericDecode(log, block_number, chain)

\* DecoderRegistry::new() and DecoderRegistry::with_generic(): the decoders field
new == <<"ftso", "fdc", "fasset">>
with_generic == <<"ftso", "fdc", "fasset", "generic">>

RECURSIVE registry_decode_last(_, _, _, _)
registry_decode_last(decoders, log, block_number, chain) ==
    IF decoders = <<>> THEN None
    ELSE LET r == registry_decode_last(Tail(decoders), log, block_number, chain)
         IN  IF r # None THEN r
             ELSE DecoderDecode(Head(decoders), log, block_number, chain)

\* DecoderRegistry::decode of a registry with the given decoders
RECURSIVE registry_decode(_, _, _, _)
registry_decode(decoders, log, block_number, chain) ==
    IF decoders = <<>> THEN None
    ELSE LET r == DecoderDecode(Head(decoders), log, block_number, chain)
         IN  IF r # None THEN r
             ELSE registry_decode(Tail(decoders), log, block_number, chain)

\* Logs for the registry: no topic, a protocol or an unknown topic0 alone, or
\* topic0 with one indexed argument
ProtocolSignatures ==
    DOMAIN FtsoSignatures \cup DOMAIN FdcSignatures \cup DOMAIN FassetSignatures

TopicSamples ==
    {<<>>} \cup {<<t>> : t \in ProtocolSignatures \cup {"Transfer"}}
           \cup {<<t, "arg">> : t \in ProtocolSignatures \cup {"Transfer"}}

LogSamples == [topics : TopicSamples, address : {"0xa", "0xb"}]

\* registry.decode(&log, block_number, now(), chain) on either registry
DecodeCall ==
    /\ \E decoders \in {new, with_generic}, log \in LogSamples, chain \in Chains :
        lastCall' = [op |-> "decode", decoders |-> decoders, log |-> log, chain |-> chain,
                     each |-> [i \in 1..Len(decoders) |->
                                  DecoderDecode(decoders[i], log, 1, chain)],
                     ret |-> registry_decode(decoders, log, 1, chain)]
    /\ UNCHANGED <<storeVars, chainVars, pollerVars, hystVars, sub_rows, kv, alerts,
                   notifications, seen, inWindow, lastProc, coolpc, grants, lastCool>>

-----------------------------------------------------------------------------
(* BlockPoller *)

\* Where a cycle's I/O fails, if it is reached: the header fetch, a fetch of the
\* divergence walk, the rollback UPDATE, the log fetch, an INSERT, the cursor upsert.
\* "cancel": nothing fails, but ctrl_c wins main's select! while run() is suspended
\* in persist_events or before update_indexer_state
Failures ==
    {"none", "get_block", "oracle", "rollback", "get_logs", "persist", "update", "cancel"}

poll_block_skips_missing(win, store, block_number, f) ==
    [result |-> IF f = "get_block" \/ get_block_by_number(block_number) = None
                THEN "ok" ELSE "err",
     events |-> <<>>, window |-> win, store |-> store, reorg |-> None,
     detector |-> "none"]

\* BlockPoller::poll_block. result "err" is any Err(e); the window and the store
\* are returned as the call leaves them. detector: whether check_and_record was
\* called ("none" if not) and returned Ok ("ok") or Err ("err").
poll_block(win, store, block_number, f) ==
    LET block == get_block_by_number(block_number) IN
    IF f = "get_block" \/ block = None
    THEN [result |-> "err", events |-> <<>>, window |-> win, store |-> store,
          reorg |-> None, detector |-> "none"]
    ELSE LET cr == check_and_record(win, block_number, block[1].hash,
                                    block[1].parent_hash, f = "oracle")
         IN  IF cr.err
             THEN [result |-> "err", events |-> <<>>, window |-> cr.window,
                   store |-> store, reorg |-> None, detector |-> "err"]
             ELSE IF cr.reorg # None
             THEN IF f = "rollback"
                  THEN [result |-> "err", events |-> <<>>, window |-> cr.window,
                        store |-> store, reorg |-> cr.reorg, detector |-> "ok"]
                  ELSE [result |-> "ok", events |-> <<>>, window |-> cr.window,
                        store |-> rollback_events_from(store, cr.reorg[1], PollerChain),
                        reorg |-> cr.reorg, detector |-> "ok"]
             ELSE IF f = "get_logs"
             THEN [result |-> "err", events |-> <<>>, window |-> cr.window,
                   store |-> store, reorg |-> None, detector |-> "ok"]
             ELSE [result |-> "ok",
                   events |-> DecodeLogs(get_logs(block_number), block_number, PollerChain),
                   window |-> cr.window, store |-> store, reorg |-> None, detector |-> "ok"]

start_block_after_cursor(cursor, latest) ==
    IF cursor = None THEN latest ELSE cursor[1] + 1

\* run(), lines 65-74: the height of the first cycle
start_block(cursor, latest) ==
    LET current_block0 == IF cursor = None THEN 0 ELSE cursor[1]
    IN  IF current_block0 = 0 THEN latest ELSE current_block0

NoCycle == [height |-> -1, outcome |-> "none", reorg |-> None, before |-> NoCursor,
            inserted |-> 0, failed |-> "none", detector |-> "none"]

\* main() starts the poller (again): a new BlockPoller with an empty detector
\* window runs run(), lines 61-81: read the cursor, fall back to the chain head,
\* enter the loop. A failing cursor query or head query makes run() return the error.
StartRun ==
    /\ pc = "stopped"
    /\ \E f \in {"none", "fail"} :
        IF f = "fail"
        THEN UNCHANGED <<pc, current_block, runStart>>
        ELSE LET cursor == get_last_indexed_block(indexer_state, PollerChain) IN
             /\ pc' = "loop"
             /\ current_block' = start_block(cursor, head)
             /\ runStart' = [cursor |-> cursor, latest |-> head, rows |-> Len(events)]
    /\ lastCycle' = NoCycle
    /\ UNCHANGED <<storeVars, chainVars, window, lastReorg, handed, hystVars, procVars>>

\* One iteration of the loop of run(), lines 83-112.
PollCycle ==
    /\ pc = "loop"
    /\ \E f \in Failures :
        LET pb == poll_block(window, events, current_block, f)
            cycle == [NoCycle EXCEPT !.height = current_block, !.reorg = pb.reorg,
                                     !.before = indexer_state[PollerChain],
                                     !.detector = pb.detector]
        IN  /\ IF pb.result = "err"
               THEN \* Err(e): sleep one poll interval, continue at the same height
                    /\ events' = pb.store
                    /\ lastCycle' = [cycle EXCEPT !.outcome = "retry"]
                    /\ UNCHANGED <<indexer_state, pc, current_block>>
               ELSE IF f = "persist" /\ pb.events # <<>>
               THEN \* an INSERT fails: the rows before it stay, run() returns the error
                    /\ \E k \in 0..(Len(pb.events) - 1) :
                          events' = persist_events(pb.store, SubSeq(pb.events, 1, k))
                    /\ lastCycle' = [cycle EXCEPT !.outcome = "exit", !.failed = "persist",
                                                  !.inserted = Len(events') - Len(events)]
                    /\ pc' = "stopped"
                    /\ current_block' = 0
                    /\ UNCHANGED indexer_state
               ELSE IF f = "cancel"
               THEN \* the run() future is dropped: the rows inserted so far stay
                    /\ \E k \in 0..Len(pb.events) :
                          events' = persist_events(pb.store, SubSeq(pb.events, 1, k))
                    /\ lastCycle' = [cycle EXCEPT !.outcome = "cancelled",
                                                  !.inserted = Len(events') - Len(events)]
                    /\ pc' = "stopped"
                    /\ current_block' = 0
                    /\ UNCHANGED indexer_state
               ELSE /\ events' = persist_events(pb.store, pb.events)
                    /\ IF f = "update"
                       THEN \* the cursor upsert fails: run() returns the error
                            /\ lastCycle' = [cycle EXCEPT !.outcome = "exit",
                                                 !.failed = "update",
                                                 !.inserted = Len(events') - Len(events)]
                            /\ pc' = "stopped"
                            /\ current_block' = 0
                            /\ UNCHANGED indexer_state
                       ELSE /\ indexer_state' =
                                  update_indexer_state(indexer_state, PollerChain,
                                                       current_block)
                            /\ current_block' = current_block + 1
                            /\ lastCycle' = [cycle EXCEPT !.outcome = "ok",
                                                 !.inserted = Len(events') - Len(events)]
                            /\ pc' = pc
            /\ window' = IF pc' = "stopped" THEN <<>> ELSE pb.window
            /\ lastReorg' = IF pc' = "stopped" THEN NoReorg
                            ELSE IF pb.reorg = None THEN lastReorg
                            ELSE [from |-> pb.reorg[1], at |-> current_block]
    /\ UNCHANGED <<lastOp, chainVars, runStart, handed, hystVars, procVars>>

\* main(): ctrl_c wins the select! and the run() future is dropped with the
\* poller's memory (the detector window, current_block).
Shutdown ==
    /\ pc = "loop"
    /\ pc' = "stopped"
    /\ current_block' = 0
    /\ window' = <<>>
    /\ lastCycle' = NoCycle
    /\ lastReorg' = NoReorg
    /\ UNCHANGED <<storeVars, chainVars, runStart, handed, hystVars, procVars>>

-----------------------------------------------------------------------------
(* HysteresisEngine *)

DEFAULT_HYSTERESIS_BLOCKS == 1
MaxRequired == 3    \* largest configured hysteresis_blocks

SubIds == {"s1", "s2"}
NoState == <<>>     \* no entry in HysteresisEngine.states

\* threshold_config.hysteresis_blocks of the sampled subscriptions: absent, or 0..MaxRequired
HysteresisConfigs == {None} \cup {Some(n) : n \in 0..MaxRequired}

\* ThresholdConfig::default(): the threshold_config {} with every field absent
NoThresholds ==
    [min_value |-> None, max_value |-> None, deviation_pct |-> None,
     hysteresis_blocks |-> None, cooldown_seconds |-> None]

\* HysteresisEngine::required_blocks
required_blocks(subscription) ==
    IF subscription.hysteresis_blocks = None THEN DEFAULT_HYSTERESIS_BLOCKS
    ELSE subscription.hysteresis_blocks[1]

advance_same_block_only(state, block_number) ==
    IF state.last_block = 0 \/ block_number = state.last_block
    THEN [state EXCEPT
            !.consecutive_count = IF block_number # state.last_block THEN @ + 1 ELSE @,
            !.last_block = block_number]
    ELSE [consecutive_count |-> 1, first_triggered_block |-> block_number,
          last_block |-> block_number]

advance_counts_repeats(state, block_number) ==
    IF \/ state.last_block = 0
       \/ block_number = state.last_block + 1
       \/ block_number = state.last_block
    THEN [state EXCEPT !.consecutive_count = @ + 1, !.last_block = block_number]
    ELSE [consecutive_count |-> 1, first_triggered_block |-> block_number,
          last_block |-> block_number]

\* check, lines 74-88: count a consecutive block (a repeated block counts once),
\* restart the streak on a gap
advance(state, block_number) ==
    IF \/ state.last_block = 0
       \/ block_number = state.last_block + 1
       \/ block_number = state.last_block
    THEN [state EXCEPT
            !.consecutive_count = IF block_number # state.last_block THEN @ + 1 ELSE @,
            !.last_block = block_number]
    ELSE [consecutive_count |-> 1, first_triggered_block |-> block_number,
          last_block |-> block_number]

\* HysteresisEngine::check: the new states map and the returned bool
check(st, subscription_id, threshold_met, block_number, subscription) ==
    LET required == required_blocks(subscription) IN
    IF ~threshold_met
    THEN [states |-> [st EXCEPT ![subscription_id] = NoState], ret |-> FALSE]
    ELSE LET state == IF st[subscription_id] = NoState
                      THEN [consecutive_count |-> 0,
                            first_triggered_block |-> block_number, last_block |-> 0]
                      ELSE st[subscription_id][1]
             next == advance(state, block_number)
         IN  IF next.consecutive_count >= required
             THEN [states |-> [st EXCEPT ![subscription_id] = NoState], ret |-> TRUE]
             ELSE [states |-> [st EXCEPT ![subscription_id] = Some(next)],
                   ret |-> FALSE]

\* HysteresisEngine::reset
reset(st, subscription_id) == [st EXCEPT ![subscription_id] = NoState]

NoCheck == [op |-> "none", sub |-> "s1", met |-> FALSE, height |-> 0, ret |-> FALSE,
            had |-> FALSE, run |-> 0, b |-> -1, afterFalse |-> FALSE]
NoStreak == <<>>

\* The run of consecutive heights observed with the threshold met, after this call
StreakAfter(s, block_number) ==
    IF streak[s] = NoStreak THEN <<block_number, block_number>>
    ELSE IF block_number = streak[s][2] THEN streak[s]
    ELSE IF block_number = streak[s][2] + 1 THEN <<streak[s][1], block_number>>
    ELSE <<block_number, block_number>>

\* engine.check(sub.id, threshold_met, block_number, &sub)
HystCheck ==
    \E s \in SubIds, met \in BOOLEAN, h \in 0..MaxHystHeight :
        LET r == check(states, s, met, h, subscriptions[s])
            run == StreakAfter(s, h)
        IN  /\ states' = r.states
            /\ lastCheck' = [op |-> "check", sub |-> s, met |-> met, height |-> h,
                             ret |-> r.ret, had |-> states[s] # NoState,
                             run |-> IF met THEN run[2] - run[1] + 1 ELSE 0,
                             b |-> IF states[s] = NoState THEN -1
                                   ELSE states[s][1].last_block,
                             afterFalse |-> cleared[s]]
            /\ cleared' = [cleared EXCEPT ![s] = IF ~met THEN TRUE
                                                 ELSE IF r.ret THEN FALSE ELSE @]
            /\ streak' = [streak EXCEPT ![s] = IF met /\ ~r.ret THEN run ELSE NoStreak]
            /\ obs' = [obs EXCEPT ![s] =
                         IF met /\ states[s] = NoState /\ h >= 1
                         THEN <<[height |-> h, ret |-> r.ret]>>
                         ELSE IF /\ met
                                 /\ @ # <<>>
                                 /\ Len(@) < MaxObs
                                 /\ h = @[Len(@)].height + 1
                         THEN Append(@, [height |-> h, ret |-> r.ret])
                         ELSE <<>>]
            /\ UNCHANGED <<subscriptions, storeVars, chainVars, pollerVars, procVars>>

\* engine.reset(sub.id)
HystReset ==
    \E s \in SubIds :
        /\ states' = reset(states, s)
        /\ lastCheck' = [NoCheck EXCEPT !.op = "reset", !.sub = s,
                                        !.had = states[s] # NoState]
        /\ streak' = [streak EXCEPT ![s] = NoStreak]
        /\ obs' = [obs EXCEPT ![s] = <<>>]
        /\ cleared' = [cleared EXCEPT ![s] = FALSE]
        /\ UNCHANGED <<subscriptions, storeVars, chainVars, pollerVars, procVars>>

-----------------------------------------------------------------------------
(* The alert pipeline: AlertMatcher, CooldownEngine, EventProcessor *)

DEFAULT_COOLDOWN_SECONDS == 300
MaxProcHeight == 2  \* block numbers of the events presented to process_event: 1..MaxProcHeight
MaxAlerts == 3      \* alert rows: process_event is called while its alerts fit

\* table monitored_addresses: id -> (address, chain); (address, chain) is unique
MonitoredAddresses ==
    [a1 |-> [address |-> "0xa", chain |-> "flare"],
     a2 |-> [address |-> "0xb", chain |-> "flare"],
     a3 |-> [address |-> "0xa", chain |-> "songbird"]]

\* JSON values of decoded_data: a number, or a string with the f64 it parses to
Num(n) == [kind |-> "number", val |-> Some(n)]
Str(parsed) == [kind |-> "string", val |-> parsed]

Abs(x) == IF x < 0 THEN -x ELSE x

\* AlertMatcher::extract_value: the first key of the list that holds a number or
\* a string that parses
ValueKeys == <<"value", "price", "amount", "cr", "vote_power">>

extract_value(data) ==
    LET hits == {i \in 1..Len(ValueKeys) :
                    /\ ValueKeys[i] \in DOMAIN data
                    /\ data[ValueKeys[i]].val # None}
    IN  IF hits = {} THEN None
        ELSE data[ValueKeys[CHOOSE i \in hits : \A j \in hits : i <= j]].val

evaluate_threshold_strict(config, data) ==
    IF config.min_value = None /\ config.max_value = None /\ config.deviation_pct = None
    THEN TRUE
    ELSE IF extract_value(data) = None THEN FALSE
    ELSE LET value == extract_value(data)[1] IN
         \/ (config.min_value # None /\ value < config.min_value[1])
         \/ (config.max_value # None /\ value > config.max_value[1])
         \/ /\ config.deviation_pct # None
            /\ "baseline" \in DOMAIN data
            /\ data.baseline.kind = "number"
            /\ data.baseline.val[1] # 0
            /\ Abs(value - data.baseline.val[1]) * 100
                  > config.deviation_pct[1] * Abs(data.baseline.val[1])

\* AlertMatcher::evaluate_threshold on the subscription's threshold_config
evaluate_threshold(config, data) ==
    IF config.min_value = None /\ config.max_value = None /\ config.deviation_pct = None
    THEN TRUE
    ELSE IF extract_value(data) = None THEN FALSE
    ELSE LET value == extract_value(data)[1] IN
         \/ (config.min_value # None /\ value < config.min_value[1])
         \/ (config.max_value # None /\ value > config.max_value[1])
         \/ /\ config.deviation_pct # None
            /\ "baseline" \in DOMAIN data
            /\ data.baseline.kind = "number"
            /\ data.baseline.val[1] # 0
            /\ Abs(value - data.baseline.val[1]) * 100
                  >= config.deviation_pct[1] * Abs(data.baseline.val[1])

find_matching_ignores_active(rows, event) ==
    {s \in DOMAIN rows :
        /\ MonitoredAddresses[rows[s].address_id].address = event.address
        /\ rows[s].event_type = event.event_type}

\* AlertMatcher::find_matching_subscriptions: the rows the query selects
find_matching_subscriptions(rows, event) ==
    {s \in DOMAIN rows :
        /\ MonitoredAddresses[rows[s].address_id].address = event.address
        /\ rows[s].event_type = event.event_type
        /\ rows[s].active = TRUE}

\* The query has no ORDER BY: the rows come back in any order
Orders(S) ==
    {o \in [1..Cardinality(S) -> S] : \A i, j \in 1..Cardinality(S) : o[i] = o[j] => i = j}

\* CooldownEngine::cooldown_seconds
cooldown_seconds(subscription) ==
    IF subscription.cooldown_seconds = None THEN DEFAULT_COOLDOWN_SECONDS
    ELSE subscription.cooldown_seconds[1]

SetEx(store, key, ttl) ==
    [kv |-> [store EXCEPT ![key] = Some(ttl)], reply |-> "OK"]

\* The command SET key "1" NX EX ttl, executed by the store in one step:
\* nil when the key exists, else the key is created with the TTL and OK is replied
SetNxEx(store, key, ttl) ==
    IF store[key] # None
    THEN [kv |-> store, reply |-> "nil"]
    ELSE [kv |-> [store EXCEPT ![key] = Some(ttl)], reply |-> "OK"]

check_and_set_inverted(store, subscription_id, subscription, unavailable) ==
    IF unavailable THEN [kv |-> store, ret |-> "err"]
    ELSE LET r == SetNxEx(store, subscription_id, cooldown_seconds(subscription))
         IN  [kv |-> r.kv, ret |-> IF r.reply = "OK" THEN "false" ELSE "true"]

\* CooldownEngine::check_and_set: Ok(true), Ok(false), or Err when the command
\* fails (the store is unavailable)
check_and_set(store, subscription_id, subscription, unavailable) ==
    IF unavailable THEN [kv |-> store, ret |-> "err"]
    ELSE LET r == SetNxEx(store, subscription_id, cooldown_seconds(subscription))
         IN  [kv |-> r.kv, ret |-> IF r.reply = "OK" THEN "true" ELSE "false"]

\* The subquery of the alert INSERT: the id of the stored event with the
\* presented (tx_hash, log_index), or NULL
EventIdOf(store, event) ==
    LET hits == {i \in 1..Len(store) :
                    /\ store[i].tx_hash = event.tx_hash
                    /\ Coalesce(store[i].log_index) = Coalesce(event.log_index)}
    IN  IF hits = {} THEN None ELSE Some(CHOOSE i \in hits : \A j \in hits : i <= j)

\* Table alerts has the primary key id, a new uuid per row, and no other unique
\* index: an INSERT never conflicts
AlertConflict(rows, row) == FALSE

\* INSERT INTO alerts
InsertAlert(rows, row) == IF AlertConflict(rows, row) THEN rows ELSE Append(rows, row)

\* INSERT INTO notifications
InsertNotification(rows, alert_id) ==
    Append(rows, [alert_id |-> alert_id, status |-> "pending"])

\* Where a process_event call fails, if the point is reached for subscription fs:
\* the matcher query, the cooldown command, the alert INSERT, the notification
\* INSERT, or the task is cancelled between the two INSERTs
ProcFailures == {"none", "matcher", "redis", "alert", "notification", "cancel"}

FailurePoints ==
    {<<f, fs>> \in ProcFailures \X {"s1", "s2"} : f \in {"none", "matcher"} => fs = "s1"}

ProcessSubCooldownFirst(acc, s, event, f, fs) ==
    IF acc.result # "ok" THEN acc
    ELSE LET a0 == [acc EXCEPT !.visited = @ \cup {s}] IN
    IF ~evaluate_threshold(subscriptions[s], event.decoded_data) THEN a0
    ELSE LET c == check_and_set(a0.kv, s, subscriptions[s], f = "redis" /\ fs = s)
             a1 == [a0 EXCEPT !.kv = c.kv]
         IN
    IF c.ret = "err" THEN [a1 EXCEPT !.result = "err", !.failed = "redis"]
    ELSE IF c.ret = "false" THEN a1
    ELSE LET h == check(a1.states, s, TRUE, event.block_number, subscriptions[s])
             a2 == [a1 EXCEPT !.states = h.states]
         IN
    IF ~h.ret THEN a2
    ELSE IF f = "alert" /\ fs = s THEN [a2 EXCEPT !.result = "err", !.failed = "alert"]
    ELSE LET alert_id == Len(a2.alerts) + 1
             a3 == [a2 EXCEPT
                      !.alerts = InsertAlert(@, [id |-> alert_id, subscription_id |-> s,
                                                 event_id |-> EventIdOf(events, event)]),
                      !.created = @ \cup {s}]
         IN
    IF f = "notification" /\ fs = s
    THEN [a3 EXCEPT !.result = "err", !.failed = "notification"]
    ELSE IF f = "cancel" /\ fs = s
    THEN [a3 EXCEPT !.result = "cancelled", !.failed = "cancel"]
    ELSE [a3 EXCEPT !.notifications = InsertNotification(@, alert_id)]

\* The loop body of process_event, lines 63-128, for one matched subscription
ProcessSub(acc, s, event, f, fs) ==
    IF acc.result # "ok" THEN acc
    ELSE LET a0 == [acc EXCEPT !.visited = @ \cup {s}] IN
    IF ~evaluate_threshold(subscriptions[s], event.decoded_data) THEN a0
    ELSE LET h == check(a0.states, s, TRUE, event.block_number, subscriptions[s])
             a1 == [a0 EXCEPT !.states = h.states]
         IN
    IF ~h.ret THEN a1
    ELSE LET c == check_and_set(a1.kv, s, subscriptions[s], f = "redis" /\ fs = s)
             a2 == [a1 EXCEPT !.kv = c.kv]
         IN
    IF c.ret = "err" THEN [a2 EXCEPT !.result = "err", !.failed = "redis"]
    ELSE IF c.ret = "false" THEN a2
    ELSE IF f = "alert" /\ fs = s THEN [a2 EXCEPT !.result = "err", !.failed = "alert"]
    ELSE LET alert_id == Len(a2.alerts) + 1
             a3 == [a2 EXCEPT
                      !.alerts = InsertAlert(@, [id |-> alert_id, subscription_id |-> s,
                                                 event_id |-> EventIdOf(events, event)]),
                      !.created = @ \cup {s}]
         IN
    IF f = "notification" /\ fs = s
    THEN [a3 EXCEPT !.result = "err", !.failed = "notification"]
    ELSE IF f = "cancel" /\ fs = s
    THEN [a3 EXCEPT !.result = "cancelled", !.failed = "cancel"]
    ELSE [a3 EXCEPT !.notifications = InsertNotification(@, alert_id)]

RECURSIVE ProcessSubs(_, _, _, _, _)
ProcessSubs(acc, subs, event, f, fs) ==
    IF subs = <<>> THEN acc
    ELSE ProcessSubs(ProcessSub(acc, Head(subs), event, f, fs), Tail(subs), event, f, fs)

\* EventProcessor::process_event on the matcher's rows in the order subs
process_event(event, subs, f, fs) ==
    LET acc == [states |-> states, kv |-> kv, alerts |-> alerts,
                notifications |-> notifications, result |-> "ok", failed |-> "none",
                visited |-> {}, created |-> {}]
    IN  IF f = "matcher" THEN [acc EXCEPT !.result = "err", !.failed = "matcher"]
        ELSE ProcessSubs(acc, subs, event, f, fs)

\* The events presented: per height a price above the sampled max_value (log
\* index 0) and a price below it (1); in block 1 also an event of another address
\* and type (2)
ProcEvent(h, li) ==
    [tx_hash |-> <<h, 0>>, log_index |-> Some(li), block_number |-> h, chain |-> "flare",
     address |-> IF li = 2 THEN "0xb" ELSE "0xa",
     event_type |-> IF li = 2 THEN "vote_power_changed" ELSE "price_epoch_finalized",
     decoded_data |-> CASE li = 0 -> [price |-> Num(150)]
                        [] li = 1 -> [price |-> Num(50)]
                        [] OTHER -> [new_vote_power |-> Str(Some(5))]]

ProcHeights == 1..MaxProcHeight
ProcKeys == {<<h, li>> : h \in ProcHeights, li \in 0..1} \cup {<<1, 2>>}
ProcSamples == {ProcEvent(k[1], k[2]) : k \in ProcKeys}

NoProc == [op |-> "none", height |-> 0, li |-> 0, matched |-> {}, visited |-> {},
           created |-> {}, result |-> "ok", failed |-> "none", suppressed |-> {},
           afterSuppressed |-> {}, run |-> [s \in SubIds |-> 0], stale |-> {}]

\* How the matched events of a subscription fared at a height so far
SeenAfter(before, met) ==
    IF before = "failed" \/ ~met THEN "failed" ELSE "met"

\* The subscriptions for which a process_event call reaches engine.check, those
\* for which that check returns true, and those of them whose alert the cooldown
\* then suppresses (check_and_set answers Ok(false))
Checked(event, visited) ==
    {s \in visited : evaluate_threshold(subscriptions[s], event.decoded_data)}

Fired(event, visited) ==
    {s \in Checked(event, visited) :
        check(states, s, TRUE, event.block_number, subscriptions[s]).ret}

Suppressed(event, visited, fp) ==
    {s \in Fired(event, visited) :
        /\ fp # <<"redis", s>>
        /\ check_and_set(kv, s, subscriptions[s], FALSE).ret = "false"}

\* process_event from line 57 on, on the rows `matched` the matcher's query
\* returned for event; with follow, the history of the streaks is kept
ProcessMatched(event, fp, matched, follow) ==
    /\ \E subs \in Orders(matched) :
      \E r \in {process_event(event, subs, fp[1], fp[2])} :
        /\ states' = r.states
        /\ kv' = r.kv
        /\ alerts' = r.alerts
        /\ notifications' = r.notifications
        /\ seen' = [s \in SubIds |->
                      IF /\ s \in matched /\ r.failed # "matcher"
                         /\ event.block_number \in DOMAIN seen[s]
                      THEN [seen[s] EXCEPT ![event.block_number] =
                              SeenAfter(@, evaluate_threshold(subscriptions[s],
                                                              event.decoded_data))]
                      ELSE seen[s]]
        /\ inWindow' = [s \in SubIds |->
                          IF s \in r.created THEN inWindow[s] + 1 ELSE inWindow[s]]
        /\ lastProc' = [op |-> "process_event", height |-> event.block_number,
                        li |-> event.log_index[1],
                        matched |-> IF r.failed = "matcher" THEN {} ELSE matched,
                        visited |-> r.visited, created |-> r.created,
                        result |-> r.result, failed |-> r.failed,
                        stale |-> {s \in matched : ~sub_rows[s].active},
                        suppressed |-> IF follow
                                       THEN Suppressed(event, r.visited, fp) ELSE {},
                        afterSuppressed |-> {s \in SubIds : cleared[s]},
                        run |-> [s \in SubIds |->
                                   IF follow /\ s \in Checked(event, r.visited)
                                   THEN StreakAfter(s, event.block_number)[2]
                                        - StreakAfter(s, event.block_number)[1] + 1
                                   ELSE 0]]
        /\ streak' = [s \in SubIds |->
                        IF ~follow THEN streak[s]
                        ELSE IF s \in Fired(event, r.visited) THEN NoStreak
                        ELSE IF s \in Checked(event, r.visited)
                        THEN StreakAfter(s, event.block_number)
                        ELSE streak[s]]
        /\ cleared' = [s \in SubIds |->
                         IF ~follow THEN cleared[s]
                         ELSE IF s \in Suppressed(event, r.visited, fp) THEN TRUE
                         ELSE IF s \in r.created THEN FALSE
                         ELSE cleared[s]]
    /\ UNCHANGED <<lastCall, storeVars, chainVars, pollerVars, subscriptions, lastCheck, obs,
                   sub_rows, coolpc, grants, lastCool>>

\* processor.process_event(&event, &pool, &mut redis) on an event of samples,
\* failing at one of points, the query and the loop in one step
ProcessEventOf(samples, points, follow) ==
    \E event \in samples, fp \in points :
        LET matched == find_matching_subscriptions(sub_rows, event) IN
        /\ Len(alerts) + Cardinality(matched) <= MaxAlerts
        /\ ProcessMatched(event, fp, matched, follow)

ProcessEventCall == ProcessEventOf(ProcSamples, FailurePoints, FALSE)

\* The events streaks are followed on: at every height from 0 on, a price above
\* the sampled max_value (log index 0) and one below it (1)
StreakHeights == 0..MaxProcHeight
StreakSamples == {ProcEvent(h, li) : h \in StreakHeights, li \in 0..1}
StreakStored ==
    [i \in 1..(2 * (MaxProcHeight + 1)) |-> Row(ProcEvent((i - 1) \div 2, (i - 1) % 2))]

\* process_event called on those events, every call it makes succeeding
StreakEventCall == ProcessEventOf(StreakSamples, {<<"none", "s1">>}, TRUE)

\* process_event, lines 51-55: the matcher's query runs and returns its rows; the
\* call is then in flight with these rows
RaceSamples == {ProcEvent(1, 0), ProcEvent(1, 2)}

QueryCall ==
    /\ lastProc.op # "query"
    /\ \E event \in RaceSamples :
        LET matched == find_matching_subscriptions(sub_rows, event) IN
        /\ Len(alerts) + Cardinality(matched) <= MaxAlerts
        /\ lastProc' = [NoProc EXCEPT !.op = "query", !.height = event.block_number,
                                      !.li = event.log_index[1], !.matched = matched]
    /\ UNCHANGED <<lastCall, storeVars, chainVars, pollerVars, hystVars, sub_rows, kv, alerts,
                   notifications, seen, inWindow, coolpc, grants, lastCool>>

\* process_event, lines 57-131: the call in flight works on the rows it got
LoopCall ==
    /\ lastProc.op = "query"
    /\ ProcessMatched(ProcEvent(lastProc.height, lastProc.li), <<"none", "s1">>,
                      lastProc.matched, FALSE)

\* matcher.find_matching_subscriptions(&event, &pool) called directly
MatchCall ==
    /\ \E event \in ProcSamples :
        lastProc' = [NoProc EXCEPT !.op = "find", !.height = event.block_number,
                                   !.li = event.log_index[1],
                                   !.matched = find_matching_subscriptions(sub_rows, event)]
    /\ UNCHANGED <<lastCall, storeVars, chainVars, pollerVars, hystVars, sub_rows, kv, alerts,
                   notifications, seen, inWindow, coolpc, grants, lastCool>>

NoCall == [op |-> "none"]

\* Payloads for the evaluator: each of the keys price, amount and baseline is
\* absent, a number, or a string that parses to a number or does not parse
Absent == [kind |-> "absent", val |-> None]

PayloadFields ==
    [price : {Absent, Num(50), Num(100), Num(120), Str(None), Str(Some(120))},
     amount : {Absent, Num(130)},
     baseline : {Absent, Num(0), Num(100), Num(-100), Str(Some(100))}]

Payload(fields) == [k \in {k \in DOMAIN fields : fields[k] # Absent} |-> fields[k]]

ThresholdSamples ==
    {[NoThresholds EXCEPT !.min_value = mn, !.max_value = mx, !.deviation_pct = dv] :
        mn \in {None, Some(100)}, mx \in {None, Some(100)}, dv \in {None, Some(20)}}

\* AlertMatcher::evaluate_threshold(&sub, &event) called directly
EvalCall ==
    /\ \E fields \in PayloadFields :
        lastCall' = [op |-> "evaluate_threshold", config |-> subscriptions["s1"],
                     data |-> Payload(fields),
                     ret |-> evaluate_threshold(subscriptions["s1"], Payload(fields))]
    /\ UNCHANGED <<storeVars, chainVars, pollerVars, hystVars, sub_rows, kv, alerts,
                   notifications, seen, inWindow, lastProc, coolpc, grants, lastCool>>

\* SubscriptionService::update with params.active = Some(b)
UpdateSubscription ==
    /\ \E s \in SubIds, b \in BOOLEAN :
        /\ sub_rows[s].active # b
        /\ sub_rows' = [sub_rows EXCEPT ![s].active = b]
    /\ UNCHANGED <<lastCall, storeVars, chainVars, pollerVars, hystVars, kv, alerts, notifications,
                   seen, inWindow, lastProc, coolpc, grants, lastCool>>

\* The TTL of a cooldown key runs out and the store drops the key
KeyExpires ==
    /\ \E s \in SubIds :
        /\ kv[s] # None
        /\ kv' = [kv EXCEPT ![s] = None]
        /\ inWindow' = [inWindow EXCEPT ![s] = 0]
        /\ grants' = [grants EXCEPT ![s] = 0]
    /\ UNCHANGED <<lastCall, storeVars, chainVars, pollerVars, hystVars, sub_rows, alerts,
                   notifications, seen, lastProc, coolpc, lastCool>>

\* CooldownEngine::clear: DEL key, or Err when the command fails
clear_keeps_key(store, subscription_id, unavailable) ==
    [kv |-> store, ret |-> IF unavailable THEN "err" ELSE "ok"]

clear(store, subscription_id, unavailable) ==
    IF unavailable THEN [kv |-> store, ret |-> "err"]
    ELSE [kv |-> [store EXCEPT ![subscription_id] = None], ret |-> "ok"]

\* UpdateSubscriptionParams: each field is None (keep) or Some(new value)
Channels == {"c1", "c2"}
ConfigSamples == {NoThresholds, [NoThresholds EXCEPT !.cooldown_seconds = Some(60)]}
UpdateParams ==
    [active : {None} \cup {Some(b) : b \in BOOLEAN},
     threshold_config : {None} \cup {Some(c) : c \in ConfigSamples},
     channel_id : {None} \cup {Some(c) : c \in Channels}]

unwrap_or(opt, default) == IF opt = None THEN default ELSE opt[1]

\* SubscriptionService::update called by the owner of the subscription: the row
\* and the threshold configuration after the UPDATE
update(rows, configs, subscription_id, params) ==
    [rows |-> [rows EXCEPT
                 ![subscription_id].active = unwrap_or(params.active, @),
                 ![subscription_id].channel_id = unwrap_or(params.channel_id, @)],
     configs |-> [configs EXCEPT
                    ![subscription_id] = unwrap_or(params.threshold_config, @)]]

\* cooldown.check_and_set(&mut redis, sub.id, &sub) called directly
CheckAndSetCall ==
    /\ \E s \in SubIds, unavailable \in BOOLEAN :
        LET r == check_and_set(kv, s, subscriptions[s], unavailable) IN
        /\ kv' = r.kv
        /\ lastCall' = [op |-> "check_and_set", sub |-> s, before |-> kv, ret |-> r.ret]
    /\ UNCHANGED <<storeVars, chainVars, pollerVars, hystVars, sub_rows, alerts,
                   notifications, seen, inWindow, lastProc, coolpc, grants, lastCool>>

\* cooldown.clear(&mut redis, sub.id) called directly
ClearCall ==
    /\ \E s \in SubIds, unavailable \in BOOLEAN :
        LET r == clear(kv, s, unavailable) IN
        /\ kv' = r.kv
        /\ lastCall' = [op |-> "clear", sub |-> s, before |-> kv, ret |-> r.ret]
    /\ UNCHANGED <<storeVars, chainVars, pollerVars, hystVars, sub_rows, alerts,
                   notifications, seen, inWindow, lastProc, coolpc, grants, lastCool>>

\* PATCH /api/subscriptions/:id: SubscriptionService::update(&pool, id, user, &params)
UpdateCall ==
    /\ \E s \in SubIds, params \in UpdateParams :
        LET r == update(sub_rows, subscriptions, s, params) IN
        /\ sub_rows' = r.rows
        /\ subscriptions' = r.configs
        /\ lastCall' = [op |-> "update", sub |-> s, before |-> kv, ret |-> "ok",
                        channel |-> r.rows[s].channel_id # sub_rows[s].channel_id,
                        threshold |-> r.configs[s] # subscriptions[s]]
    /\ UNCHANGED <<storeVars, chainVars, pollerVars, states, lastCheck, obs, streak,
                   cleared, kv, alerts, notifications, seen, inWindow, lastProc, coolpc,
                   grants, lastCool>>

\* Two tasks that call CooldownEngine::check_and_set
Callers == {"p1", "p2"}
IdleCall == [pc |-> "idle", sub |-> "s1", ret |-> "none"]
NoCool == [op |-> "none", sub |-> "s1", existed |-> FALSE, ret |-> "none",
           created |-> None]

\* check_and_set, lines 40-41: the call is entered and the key is formatted
CoolCall(p) ==
    /\ coolpc[p].pc = "idle"
    /\ \E s \in SubIds : coolpc' = [coolpc EXCEPT ![p] = [pc |-> "sent", sub |-> s,
                                                         ret |-> "none"]]
    /\ UNCHANGED <<lastCall, storeVars, chainVars, pollerVars, hystVars, sub_rows, kv, alerts,
                   notifications, seen, inWindow, lastProc, grants, lastCool>>

\* check_and_set, lines 46-53: the store executes the command, or the command fails
CoolExec(p) ==
    /\ coolpc[p].pc = "sent"
    /\ \E unavailable \in BOOLEAN :
        LET s == coolpc[p].sub
            r == check_and_set(kv, s, subscriptions[s], unavailable)
        IN  /\ kv' = r.kv
            /\ coolpc' = [coolpc EXCEPT ![p] = [pc |-> "replied", sub |-> s, ret |-> r.ret]]
            /\ grants' = [grants EXCEPT ![s] = IF r.ret = "true" THEN @ + 1 ELSE @]
            /\ lastCool' = [op |-> "set", sub |-> s, existed |-> kv[s] # None,
                            ret |-> r.ret,
                            created |-> IF r.kv[s] # kv[s] THEN r.kv[s] ELSE None]
    /\ UNCHANGED <<lastCall, storeVars, chainVars, pollerVars, hystVars, sub_rows, alerts,
                   notifications, seen, inWindow, lastProc>>

\* check_and_set, lines 55-65: the caller gets the result
CoolReturn(p) ==
    /\ coolpc[p].pc = "replied"
    /\ coolpc' = [coolpc EXCEPT ![p] = IdleCall]
    /\ UNCHANGED <<lastCall, storeVars, chainVars, pollerVars, hystVars, sub_rows, kv, alerts,
                   notifications, seen, inWindow, lastProc, grants, lastCool>>

-----------------------------------------------------------------------------
(* Specifications *)

StoreInit ==
    /\ events = <<>>
    /\ indexer_state = [c \in Chains |-> NoCursor]
    /\ lastOp = NoOp

ChainIdle ==
    /\ head = 0
    /\ ver = [h \in Heights |-> 0]
    /\ kind = [h \in Heights |-> "empty"]

PollerIdle ==
    /\ pc = "stopped"
    /\ current_block = 0
    /\ window = <<>>
    /\ runStart = [cursor |-> None, latest |-> 0, rows |-> 0]
    /\ lastCycle = NoCycle
    /\ lastReorg = NoReorg
    /\ handed = <<>>

HystIdle ==
    /\ states = [s \in SubIds |-> NoState]
    /\ lastCheck = NoCheck
    /\ obs = [s \in SubIds |-> <<>>]
    /\ streak = [s \in SubIds |-> NoStreak]
    /\ cleared = [s \in SubIds |-> FALSE]

DefaultSubscriptions == [s \in SubIds |-> NoThresholds]

DefaultSubRows ==
    [s \in SubIds |-> [address_id |-> "a1", event_type |-> "price_epoch_finalized",
                       active |-> TRUE, channel_id |-> "c1"]]

ProcIdle ==
    /\ kv = [s \in SubIds |-> None]
    /\ alerts = <<>>
    /\ notifications = <<>>
    /\ seen = [s \in SubIds |-> [h \in ProcHeights |-> "none"]]
    /\ inWindow = [s \in SubIds |-> 0]
    /\ lastProc = NoProc
    /\ coolpc = [p \in Callers |-> IdleCall]
    /\ grants = [s \in SubIds |-> 0]
    /\ lastCool = NoCool
    /\ lastCall = NoCall

\* The store operations called directly on an empty store
StoreSpecInit ==
    /\ StoreInit /\ ChainIdle /\ PollerIdle /\ HystIdle /\ ProcIdle
    /\ subscriptions = DefaultSubscriptions
    /\ sub_rows = DefaultSubRows

StoreNext ==
    \/ (PersistEventsCall /\ UNCHANGED <<chainVars, pollerVars, hystVars, procVars>>)
    \/ (RollbackCall /\ UNCHANGED <<chainVars, pollerVars, hystVars, procVars>>)

SpecStore == StoreSpecInit /\ [][StoreNext]_vars

\* The poller started on an empty store; the chain has some blocks already
Init ==
    /\ StoreInit /\ HystIdle /\ ProcIdle
    /\ subscriptions = DefaultSubscriptions
    /\ sub_rows = DefaultSubRows
    /\ head \in 0..1
    /\ ver = [h \in Heights |-> 0]
    /\ kind \in Layouts
    /\ pc = "stopped"
    /\ current_block = 0
    /\ window = <<>>
    /\ runStart = [cursor |-> None, latest |-> 0, rows |-> 0]
    /\ lastCycle = NoCycle
    /\ lastReorg = NoReorg
    /\ handed = <<>>

Next ==
    \/ StartRun
    \/ PollCycle
    \/ Shutdown
    \/ MineBlock
    \/ ChainReorg

Spec == Init /\ [][Next]_vars

\* A cycle in which every call succeeds
CycleSucceeds == PollCycle /\ lastCycle'.outcome = "ok"

\* The polling loop when no call fails forever: while the loop runs and the
\* block of its height exists, a cycle without a failure is eventually executed
SpecLive == Init /\ [][Next]_vars /\ WF_vars(CycleSucceeds)

\* The polling loop when no call fails forever and the chain grows: every height
\* up to MaxHeight is eventually mined
SpecProgress ==
    Init /\ [][Next]_vars /\ WF_vars(CycleSucceeds) /\ WF_vars(MineBlock)

\* The hysteresis engine called with any subscription, flag and height
HystInit ==
    /\ StoreInit /\ ChainIdle /\ PollerIdle /\ HystIdle /\ ProcIdle
    /\ sub_rows = DefaultSubRows
    /\ subscriptions \in
          [SubIds -> {[NoThresholds EXCEPT !.hysteresis_blocks = hb] :
                         hb \in HysteresisConfigs}]

HystNext ==
    \/ HystCheck
    \/ HystReset

SpecHyst == HystInit /\ [][HystNext]_vars

\* The events the poller stored before they are presented to process_event
RECURSIVE StoredSamples(_, _)
StoredSamples(h, li) ==
    IF h > MaxProcHeight THEN <<>>
    ELSE IF <<h, li>> \notin ProcKeys THEN StoredSamples(h + 1, 0)
    ELSE <<Row(ProcEvent(h, li))>> \o StoredSamples(h, li + 1)

\* process_event called with any sampled event, in any order and repeatedly, on
\* two subscriptions: s1 on address 0xa of flare with max_value = 100 and two
\* hysteresis blocks; s2 without thresholds on the same hex address of songbird
ProcInit ==
    /\ ChainIdle /\ PollerIdle /\ HystIdle /\ ProcIdle
    /\ events = StoredSamples(1, 0)
    /\ indexer_state = [c \in Chains |-> NoCursor]
    /\ lastOp = NoOp
    /\ subscriptions =
          [s \in SubIds |->
              IF s = "s1"
              THEN [NoThresholds EXCEPT !.max_value = Some(100),
                                        !.hysteresis_blocks = Some(2)]
              ELSE [NoThresholds EXCEPT !.cooldown_seconds = Some(60)]]
    /\ sub_rows =
          [s \in SubIds |->
              [address_id |-> IF s = "s1" THEN "a1" ELSE "a3",
               event_type |-> "price_epoch_finalized", active |-> TRUE,
               channel_id |-> "c1"]]

ProcNext ==
    \/ ProcessEventCall
    \/ KeyExpires

SpecProc == ProcInit /\ [][ProcNext]_vars

\* process_event called with met and unmet prices of the heights 0..MaxProcHeight,
\* in any order and repeatedly, on the subscription s1 of ProcInit (s2 is inactive)
StreakInit ==
    /\ ChainIdle /\ PollerIdle /\ HystIdle /\ ProcIdle
    /\ events = StreakStored
    /\ indexer_state = [c \in Chains |-> NoCursor]
    /\ lastOp = NoOp
    /\ subscriptions =
          [s \in SubIds |->
              IF s = "s1"
              THEN [NoThresholds EXCEPT !.max_value = Some(100),
                                        !.hysteresis_blocks = Some(2)]
              ELSE [NoThresholds EXCEPT !.cooldown_seconds = Some(60)]]
    /\ sub_rows =
          [s \in SubIds |->
              [address_id |-> IF s = "s1" THEN "a1" ELSE "a3",
               event_type |-> "price_epoch_finalized", active |-> s = "s1",
               channel_id |-> "c1"]]

StreakNext ==
    \/ StreakEventCall
    \/ KeyExpires

SpecStreak == StreakInit /\ [][StreakNext]_vars

\* check_and_set called by two tasks on the shared key/value store; s1 has the
\* default cooldown, s2 a configured one
CoolInit ==
    /\ StoreInit /\ ChainIdle /\ PollerIdle /\ HystIdle /\ ProcIdle
    /\ sub_rows = DefaultSubRows
    /\ subscriptions =
          [s \in SubIds |->
              IF s = "s1" THEN NoThresholds
              ELSE [NoThresholds EXCEPT !.cooldown_seconds = Some(60)]]

CoolNext ==
    \/ \E p \in Callers : CoolCall(p)
    \/ \E p \in Callers : CoolExec(p)
    \/ \E p \in Callers : CoolReturn(p)
    \/ KeyExpires

\* process_event as two steps, the query and the loop, while an API writer
\* activates and deactivates the two subscriptions, both on address 0xa of flare
\* and without thresholds
RaceInit ==
    /\ ChainIdle /\ PollerIdle /\ HystIdle /\ ProcIdle
    /\ events = StoredSamples(1, 0)
    /\ indexer_state = [c \in Chains |-> NoCursor]
    /\ lastOp = NoOp
    /\ subscriptions = DefaultSubscriptions
    /\ sub_rows = DefaultSubRows

RaceNext ==
    \/ QueryCall
    \/ LoopCall
    \/ UpdateSubscription
    \/ KeyExpires

SpecRace == RaceInit /\ [][RaceNext]_vars

SpecCool == CoolInit /\ [][CoolNext]_vars

\* check_and_set, clear and the subscription update called in any order on the
\* two subscriptions, while keys expire
ClearNext ==
    \/ CheckAndSetCall
    \/ ClearCall
    \/ UpdateCall
    \/ KeyExpires

SpecClear == CoolInit /\ [][ClearNext]_vars

EventTypes == {"price_epoch_finalized", "vote_power_changed"}

\* The matcher called on any two subscriptions, which are activated and
\* deactivated between the calls
MatchInit ==
    /\ StoreInit /\ ChainIdle /\ PollerIdle /\ HystIdle /\ ProcIdle
    /\ subscriptions = DefaultSubscriptions
    /\ sub_rows \in [SubIds -> [address_id : DOMAIN MonitoredAddresses,
                                event_type : EventTypes, active : BOOLEAN,
                                channel_id : {"c1"}]]

MatchNext ==
    \/ MatchCall
    \/ UpdateSubscription

SpecMatch == MatchInit /\ [][MatchNext]_vars

\* The threshold evaluator called on any sampled payload, for a subscription with
\* any sampled combination of min_value, max_value and deviation_pct
EvalInit ==
    /\ StoreInit /\ ChainIdle /\ PollerIdle /\ HystIdle /\ ProcIdle
    /\ sub_rows = DefaultSubRows
    /\ subscriptions \in [SubIds -> ThresholdSamples]
    /\ subscriptions["s2"] = NoThresholds

EvalNext ==
    \/ EvalCall

SpecEval == EvalInit /\ [][EvalNext]_vars

\* Either registry called on any sampled log
DecodeInit ==
    /\ StoreInit /\ ChainIdle /\ PollerIdle /\ HystIdle /\ ProcIdle
    /\ subscriptions = DefaultSubscriptions
    /\ sub_rows = DefaultSubRows

DecodeNext ==
    \/ DecodeCall

SpecDecode == DecodeInit /\ [][DecodeNext]_vars

-----------------------------------------------------------------------------
(* Claims *)

C2_RollbackCorrectness ==
    [][lastOp'.op = "rollback" =>
          /\ Len(events') = Len(events)
          /\ \A i \in 1..Len(events) :
                IF events[i].chain = lastOp'.chain /\ events[i].block_number >= lastOp'.from
                THEN events'[i].is_reorged
                ELSE events'[i].is_reorged = events[i].is_reorged]_vars

\* C2 witness: after a rollback, a row of the chain at or above r is reorged, a
\* row of the chain below r and a row of the other chain at or above r are not.
C2_Witness ==
    /\ lastOp.op = "rollback"
    /\ \E i, j, k \in 1..Len(events) :
        /\ events[i].chain = lastOp.chain
        /\ events[i].block_number >= lastOp.from
        /\ events[i].is_reorged
        /\ events[j].chain = lastOp.chain
        /\ events[j].block_number < lastOp.from
        /\ ~events[j].is_reorged
        /\ events[k].chain # lastOp.chain
        /\ events[k].block_number >= lastOp.from
        /\ ~events[k].is_reorged

\* C3 (Spec). A cycle at height h that gets a reorg report persists no new events
\* and the loop runs its next cycle at h again.
C3_ReorgCycleRestartsAtSameHeight ==
    (pc = "loop" /\ lastCycle.reorg # None)
        => (lastCycle.inserted = 0 /\ current_block = lastCycle.height)

\* The events of the block that is canonical at height g now
CanonicalEvents(g) == DecodeLogs(get_logs(g), g, PollerChain)

IsCanonicalRow(row) ==
    \E k \in 1..Len(CanonicalEvents(row.block_number)) :
        /\ CanonicalEvents(row.block_number)[k].tx_hash = row.tx_hash
        /\ CanonicalEvents(row.block_number)[k].log_index = row.log_index

\* C4 (Spec). After a reorg reported at height h with rollback target r, once the
\* loop has moved beyond h (the loop never returns to a height), and while the
\* chain has not reorganised again, every event of the canonical blocks at
\* r..h is stored with is_reorged = false and the other rows at r..h are reorged.
C4_CanonicalChainReingested ==
    (pc = "loop" /\ lastReorg # NoReorg /\ current_block > lastReorg.at) =>
        /\ \A g \in lastReorg.from..lastReorg.at :
              \A k \in 1..Len(CanonicalEvents(g)) :
                  \E i \in 1..Len(events) :
                      /\ events[i].tx_hash = CanonicalEvents(g)[k].tx_hash
                      /\ events[i].log_index = CanonicalEvents(g)[k].log_index
                      /\ events[i].block_number = g
                      /\ ~events[i].is_reorged
        /\ \A i \in 1..Len(events) :
              (/\ events[i].block_number \in lastReorg.from..lastReorg.at
               /\ ~IsCanonicalRow(events[i])) => events[i].is_reorged

\* C5 (Spec). Cursor monotonicity: no step of the poller, over runs and restarts,
\* lowers indexer_state.last_block of a chain (no row counts as below every height).
C5_CursorMonotone ==
    [][\A c \in Chains : indexer_state'[c] >= indexer_state[c]]_vars

\* C5 witness: a successful cycle that followed a stored cursor raised it.
C5_Witness ==
    /\ pc = "loop"
    /\ lastCycle.outcome = "ok"
    /\ lastCycle.before # NoCursor
    /\ indexer_state[PollerChain] > lastCycle.before

\* C6 as claimed (Spec). The first cycle of a run polls L+1 when a cursor L is
\* stored, and the chain head when none is.
C6_StartsAfterCursor ==
    (pc = "loop" /\ lastCycle = NoCycle) =>
        current_block = IF runStart.cursor = None THEN runStart.latest
                        ELSE runStart.cursor[1] + 1

\* C6 amended (Spec). The first cycle of a run polls L itself when a cursor
\* L >= 1 is stored, and the chain head when no cursor is stored or L = 0.
C6_StartsAtCursor ==
    (pc = "loop" /\ lastCycle = NoCycle) =>
        current_block = IF runStart.cursor = None \/ runStart.cursor = Some(0)
                        THEN runStart.latest
                        ELSE runStart.cursor[1]

\* C6 witness: a run started on a stored cursor L >= 1 below the chain head and
\* has not completed a cycle yet.
C6_Witness ==
    /\ pc = "loop"
    /\ lastCycle = NoCycle
    /\ runStart.cursor # None
    /\ runStart.cursor[1] >= 1
    /\ runStart.cursor[1] < runStart.latest

\* C7 (Spec). Every row a completed cycle inserted has been handed to
\* process_event when the loop moves on to the next height.
C7_PersistedEventsHanded ==
    (pc = "loop" /\ lastCycle.outcome = "ok") =>
        \A i \in (Len(events) - lastCycle.inserted + 1)..Len(events) :
            \E k \in 1..Len(handed) :
                /\ handed[k].tx_hash = events[i].tx_hash
                /\ handed[k].log_index = events[i].log_index

\* C8 (Spec). Within a run, rows are inserted in (height, log order): of two rows
\* inserted by the run, the later one has a greater height, or the same height
\* and a greater log index.
C8_InsertionOrder ==
    pc = "loop" =>
        \A i, j \in (runStart.rows + 1)..Len(events) :
            i < j =>
                \/ events[i].block_number < events[j].block_number
                \/ /\ events[i].block_number = events[j].block_number
                   /\ Coalesce(events[i].log_index) < Coalesce(events[j].log_index)

\* C8 witness: a run inserted two rows of one block and a row of a later block.
C8_Witness ==
    /\ pc = "loop"
    /\ \E i, j, k \in (runStart.rows + 1)..Len(events) :
        /\ i < j /\ j < k
        /\ events[i].block_number = events[j].block_number
        /\ events[j].block_number < events[k].block_number

\* The number N of blocks a subscription requires, as its configuration states it
RequiredN(s) ==
    IF subscriptions[s].hysteresis_blocks = None THEN 1
    ELSE subscriptions[s].hysteresis_blocks[1]

\* C9 (SpecHyst). Hysteresis streak: starting without stored state at a height
\* h >= 1, check(sub, true, .) at the consecutive heights h, h+1, ... returns
\* false for the first N-1 calls and true for the N-th (N = 1 when
\* hysteresis_blocks is not configured).
C9_HysteresisStreak ==
    \A s \in SubIds :
        RequiredN(s) >= 1 =>
            \A i \in 1..Len(obs[s]) :
                i <= RequiredN(s) => (obs[s][i].ret = (i = RequiredN(s)))

\* C9 witness: a subscription with N = 3 completed a streak of three calls, and
\* one without hysteresis_blocks returned true on its first call.
C9_Witness ==
    /\ \E s \in SubIds :
        /\ subscriptions[s].hysteresis_blocks = Some(3)
        /\ Len(obs[s]) = 3
        /\ obs[s][3].ret
    /\ \E s \in SubIds :
        /\ subscriptions[s].hysteresis_blocks = None
        /\ Len(obs[s]) = 1
        /\ obs[s][1].ret

\* C10 (SpecHyst). Hysteresis freshness: when check returns true no state is
\* stored for the subscription, and with N >= 2 it returns true only on a call
\* that completes N consecutive blocks observed since the last true return (so
\* not on the next block after a true return).
C10_HysteresisFreshness ==
    (lastCheck.op = "check" /\ lastCheck.ret) =>
        /\ states[lastCheck.sub] = NoState
        /\ RequiredN(lastCheck.sub) >= 2 => lastCheck.run >= RequiredN(lastCheck.sub)

\* C11 (SpecHyst). Hysteresis gap reset: when state is stored with last_block = b
\* and check(sub, true, height) is called with height neither b nor b + 1, the call
\* returns true iff N <= 1, and when it returns false the stored streak is
\* streak_count = 1 with last_block = height.
C11_GapReset ==
    (/\ lastCheck.op = "check"
     /\ lastCheck.met
     /\ lastCheck.had
     /\ lastCheck.height # lastCheck.b
     /\ lastCheck.height # lastCheck.b + 1) =>
        /\ lastCheck.ret = (RequiredN(lastCheck.sub) <= 1)
        /\ ~lastCheck.ret =>
              /\ states[lastCheck.sub] # NoState
              /\ states[lastCheck.sub][1].consecutive_count = 1
              /\ states[lastCheck.sub][1].last_block = lastCheck.height

\* C12 (SpecHyst). check(sub, false, .) returns false and leaves no state stored
\* for the subscription, and a true return that follows it completes N
\* consecutive blocks observed after it.
C12_FalseClearsStreak ==
    /\ (lastCheck.op = "check" /\ ~lastCheck.met) =>
            (~lastCheck.ret /\ states[lastCheck.sub] = NoState)
    /\ (lastCheck.op = "check" /\ lastCheck.ret /\ lastCheck.afterFalse) =>
            lastCheck.run >= RequiredN(lastCheck.sub)

\* C13 (SpecProc). An alert needs N consecutive blocks of a held threshold: when
\* process_event creates an alert for a subscription at height h, then at every
\* height h-N+1..h a matched event of the subscription met the threshold and no
\* matched event of the subscription failed it.
C13_AlertNeedsHeldThreshold ==
    lastProc.op = "process_event" =>
        \A s \in lastProc.created :
            \A g \in (lastProc.height - RequiredN(s) + 1)..lastProc.height :
                g \in ProcHeights /\ seen[s][g] = "met"

\* C14 (SpecCool). Cooldown exclusion: check_and_set(sub) returns true iff the
\* key of sub did not exist and the call created it with the configured cooldown
\* as TTL; and of the calls made on one subscription by the two tasks, in any
\* interleaving, at most one is answered true while the key does not expire.
C14_CooldownExclusion ==
    /\ \A s \in SubIds : grants[s] <= 1
    /\ lastCool.op = "set" =>
          ((lastCool.ret = "true") <=>
              (/\ ~lastCool.existed
               /\ lastCool.created =
                      Some(cooldown_seconds(subscriptions[lastCool.sub]))))

\* C14 witness: both tasks called check_and_set for the subscription with the
\* configured cooldown; one call was answered true and created the key with
\* that TTL, the other was answered false, and the key has not expired.
C14_Witness ==
    /\ coolpc["p1"] = [pc |-> "replied", sub |-> "s2", ret |-> "true"]
    /\ coolpc["p2"] = [pc |-> "replied", sub |-> "s2", ret |-> "false"]
    /\ kv["s2"] = Some(60)
    /\ grants["s2"] = 1

\* C15 (SpecProc). At most one alert row per subscription and cooldown window:
\* between two expiries of a subscription's cooldown key, the process_event
\* calls write at most one alert row for the subscription.
C15_OneAlertPerWindow ==
    \A s \in SubIds : inWindow[s] <= 1

\* C15 witness: an alert of s2 was written, its key has not expired, and the
\* last call presented a matching event to s2 again and wrote no alert for it.
C15_Witness ==
    /\ lastProc.op = "process_event"
    /\ lastProc.result = "ok"
    /\ "s2" \in lastProc.visited
    /\ "s2" \notin lastProc.created
    /\ inWindow["s2"] = 1
    /\ kv["s2"] # None
    /\ \E i \in 1..Len(alerts) : alerts[i].subscription_id = "s2"

\* C16 (SpecProc). Alert and notification are written atomically: in every
\* state, also after a failed insert or a cancellation, each alert row has
\* exactly one pending notification row that references it, and each
\* notification row references an alert row.
C16_AlertNotificationAtomic ==
    /\ \A i \in 1..Len(alerts) :
          Cardinality({j \in 1..Len(notifications) :
                          /\ notifications[j].alert_id = alerts[i].id
                          /\ notifications[j].status = "pending"}) = 1
    /\ \A j \in 1..Len(notifications) :
          \E i \in 1..Len(alerts) : alerts[i].id = notifications[j].alert_id

\* C17 (SpecProc). Alert idempotency: no two alert rows have the same
\* subscription_id and the same event_id, however often an event is presented.
C17_AlertIdempotency ==
    \A i, j \in 1..Len(alerts) :
        (/\ alerts[i].subscription_id = alerts[j].subscription_id
         /\ alerts[i].event_id = alerts[j].event_id) => i = j

\* C18 (SpecProc). Cooldown store unavailable is fail-closed: when the cooldown
\* command fails for a subscription, process_event does not return an error,
\* writes no alert for that subscription and goes through all matched
\* subscriptions.
C18_CooldownFailClosed ==
    (lastProc.op = "process_event" /\ lastProc.failed = "redis") =>
        /\ lastProc.result = "ok"
        /\ lastProc.visited = lastProc.matched

\* C19 (Spec). One bad event never halts ingestion: after a cycle in which
\* persisting an event failed, the polling loop is still running.
C19_PersistFailureKeepsLoop ==
    lastCycle.failed = "persist" => pc = "loop"

\* The event the matcher was last called with
LastEvent == ProcEvent(lastProc.height, lastProc.li)

\* C20 (SpecMatch). The matcher returns exactly the subscriptions whose monitored
\* address equals the event's address, whose event type equals the event's type
\* and whose active flag is true; an inactive subscription is never returned.
C20_MatcherExact ==
    [][(lastProc'.op = "find" /\ sub_rows' = sub_rows) =>
          \A s \in SubIds :
              s \in lastProc'.matched <=>
                  /\ MonitoredAddresses[sub_rows[s].address_id].address =
                        ProcEvent(lastProc'.height, lastProc'.li).address
                  /\ sub_rows[s].event_type =
                        ProcEvent(lastProc'.height, lastProc'.li).event_type
                  /\ sub_rows[s].active]_vars

\* C20 witness: a call returned one subscription and left out the other, which
\* has the event's address and type and was deactivated.
C20_Witness ==
    /\ lastProc.op = "find"
    /\ lastProc.matched # {}
    /\ \E s \in SubIds \ lastProc.matched :
          /\ MonitoredAddresses[sub_rows[s].address_id].address = LastEvent.address
          /\ sub_rows[s].event_type = LastEvent.event_type
          /\ ~sub_rows[s].active

\* C21: evaluate_threshold returns true when none of min_value, max_value and
\* deviation_pct is configured; false when one is configured and no value can be
\* extracted; otherwise true iff value < min_value, or value > max_value, or a
\* non-zero (numeric) baseline is in the payload and
\* |value - baseline| / |baseline| * 100 >= deviation_pct.
NumericBaseline(data) ==
    IF "baseline" \in DOMAIN data /\ data["baseline"].kind = "number"
    THEN data["baseline"].val ELSE None

C22_RegistryDispatch ==
    lastCall.op = "decode" =>
        LET hits == {i \in DOMAIN lastCall.each : lastCall.each[i] # None}
            topics == lastCall.log.topics
            protocol == topics # <<>> /\ topics[1] \in ProtocolSignatures
        IN  /\ lastCall.ret = IF hits = {} THEN None
                              ELSE lastCall.each[CHOOSE i \in hits : \A j \in hits : i <= j]
            /\ (lastCall.decoders = new /\ ~protocol) => lastCall.ret = None
            /\ (lastCall.decoders = with_generic /\ ~protocol /\ topics # <<>>)
                  => lastCall.ret # None /\ lastCall.ret[1].event_type = "generic_event"
            /\ protocol =>
                  /\ lastCall.ret # None
                  /\ lastCall.ret[1].event_type # "generic_event"
                  /\ \E sigs \in {FtsoSignatures, FdcSignatures, FassetSignatures} :
                        /\ topics[1] \in DOMAIN sigs
                        /\ lastCall.ret[1].event_type = sigs[topics[1]]
            /\ topics = <<>> => lastCall.ret = None

\* The permissive registry decodes a protocol log that the generic decoder
\* accepts as well
C22_Witness ==
    /\ lastCall.op = "decode"
    /\ lastCall.decoders = with_generic
    /\ lastCall.each[3] # None /\ lastCall.each[4] # None
    /\ lastCall.ret[1].event_type = "liquidation_started"

\* A loop cycle in which check_and_record was called and returned Ok, and after
\* which the poller keeps running with the detector's window
DetectorStep ==
    /\ pc = "loop" /\ pc' = "loop"
    /\ lastCycle'.detector = "ok"
    /\ lastCycle'.height = current_block
    /\ <<window, events, indexer_state, current_block, lastCycle>>'
          # <<window, events, indexer_state, current_block, lastCycle>>

C24_DivergenceHeight ==
    [][(DetectorStep /\ lastCycle'.reorg # None) =>
          LET good == {window[i][1] : i \in {j \in 1..Len(window) :
                                                 StillCanonical(window[j])}}
              target == IF good = {} THEN window[1][1]
                        ELSE (CHOOSE g \in good : \A k \in good : k <= g) + 1
          IN  /\ lastCycle'.reorg = Some(target)
              /\ \A i \in 1..Len(window') : window'[i][1] < target
              /\ window' = SelectSeq(window, LAMBDA e : e[1] < target)]_vars

\* A reorg was reported with a stored height still canonical, and the entries up
\* to that height are kept
C24_Witness ==
    /\ lastCycle.detector = "ok"
    /\ lastCycle.reorg # None
    /\ window # <<>>
    /\ window[Len(window)][1] = lastCycle.reorg[1] - 1

\* C25: when the poller is cancelled inside a cycle (before, during or after
\* persisting, before the cursor update) and restarted, every decoded event of the
\* interrupted block is stored exactly once. The loop only moves forward, so the
\* restarted run must begin at or below the interrupted height unless every
\* event of that block is stored already.
C25_RestartLosesNothing ==
    [][(pc = "stopped" /\ pc' = "loop" /\ lastCycle.outcome = "cancelled") =>
          LET h == lastCycle.height IN
          \/ current_block' <= h
          \/ \A k \in 1..Len(CanonicalEvents(h)) :
                Cardinality({i \in 1..Len(events) :
                                /\ events[i].tx_hash = CanonicalEvents(h)[k].tx_hash
                                /\ events[i].log_index = CanonicalEvents(h)[k].log_index
                                /\ events[i].block_number = h
                                /\ ~events[i].is_reorged}) = 1]_vars

\* C26: a stored event is immutable: no operation deletes a row of indexed_events
\* or changes a field other than is_reorged; persist_events on an existing
\* (tx_hash, log_index) leaves the stored row unchanged, an is_reorged = true flag
\* included; is_reorged never goes from true back to false.
C26_StoredEventImmutable ==
    [][/\ Len(events') >= Len(events)
       /\ \A i \in 1..Len(events) :
             /\ [events'[i] EXCEPT !.is_reorged = events[i].is_reorged] = events[i]
             /\ events[i].is_reorged => events'[i].is_reorged
       /\ lastOp'.op = "persist" => SubSeq(events', 1, Len(events)) = events]_vars

\* persist_events was called with the key of a row that is flagged is_reorged,
\* and the flag is still set
C26_Witness ==
    /\ lastOp.op = "persist"
    /\ lastOp.onReorged
    /\ \E i \in 1..Len(events) : events[i].is_reorged

\* C27: first observation: for every height, height 0 included,
\* check(sub, true, height) on a subscription without stored state returns true
\* iff N <= 1, and when it returns false the stored state is streak_count = 1 and
\* last_block = height.
C27_FirstObservation ==
    (lastCheck.op = "check" /\ lastCheck.met /\ ~lastCheck.had) =>
        /\ lastCheck.ret = (RequiredN(lastCheck.sub) <= 1)
        /\ ~lastCheck.ret =>
              /\ states[lastCheck.sub] # NoState
              /\ states[lastCheck.sub][1].consecutive_count = 1
              /\ states[lastCheck.sub][1].last_block = lastCheck.height

\* C28: same-block observations count once: check(sub, true, height) with stored
\* last_block = height leaves streak_count unchanged, and with N >= 2 a streak
\* never completes through repeated observations of a single height: a true
\* return needs stored state whose last_block is another height.
C28_SameBlockCountsOnce ==
    [][/\ (/\ lastCheck'.op = "check"
           /\ lastCheck'.met
           /\ states[lastCheck'.sub] # NoState
           /\ states[lastCheck'.sub][1].last_block = lastCheck'.height) =>
              /\ ~lastCheck'.ret
              /\ states'[lastCheck'.sub] # NoState
              /\ states'[lastCheck'.sub][1].consecutive_count =
                    states[lastCheck'.sub][1].consecutive_count
       /\ (/\ lastCheck'.op = "check"
           /\ lastCheck'.ret
           /\ RequiredN(lastCheck'.sub) >= 2) =>
              (lastCheck'.had /\ lastCheck'.b # lastCheck'.height)]_vars

\* A block was observed again one observation short of a complete streak
C28_Witness ==
    /\ lastCheck.op = "check" /\ lastCheck.met /\ lastCheck.had
    /\ lastCheck.b = lastCheck.height
    /\ lastCheck.height >= 1
    /\ RequiredN(lastCheck.sub) = 2
    /\ ~lastCheck.ret
    /\ states[lastCheck.sub] # NoState
    /\ states[lastCheck.sub][1].consecutive_count = 1

\* A step that is a process_event call (the call sets keys, it drops none)
ProcessEventStep ==
    /\ lastProc'.op = "process_event"
    /\ \A s \in SubIds : kv[s] # None => kv'[s] # None

AlertsOf(rows, s) == {i \in 1..Len(rows) : rows[i].subscription_id = s}

\* C29: gate order with early-out in process_event: for each matched subscription
\* the hysteresis state changes only if the threshold evaluation returned true,
\* the cooldown key is set only if the hysteresis check returned true, and the
\* alert is written only if check_and_set returned true; a gate that rejects one
\* subscription does not stop the evaluation of the other matched subscriptions.
C29_GateOrder ==
    [][ProcessEventStep =>
          LET event == ProcEvent(lastProc'.height, lastProc'.li) IN
          \A s \in SubIds :
              LET met == evaluate_threshold(subscriptions[s], event.decoded_data)
                  held == check(states, s, TRUE, event.block_number, subscriptions[s]).ret
                  free == kv[s] = None
                  wrote == AlertsOf(alerts', s) # AlertsOf(alerts, s)
              IN  /\ (s \notin lastProc'.matched \/ ~met) => states'[s] = states[s]
                  /\ (s \notin lastProc'.matched \/ ~met \/ ~held) => kv'[s] = kv[s]
                  /\ (s \notin lastProc'.matched \/ ~met \/ ~held \/ ~free) => ~wrote
                  /\ (lastProc'.failed = "none" /\ s \in lastProc'.matched) =>
                        /\ s \in lastProc'.visited
                        /\ met => states'[s] =
                              check(states, s, TRUE, event.block_number,
                                    subscriptions[s]).states[s]
                        /\ (met /\ held) => kv'[s] # None
                        /\ (met /\ held /\ free) => wrote]_vars

\* Two subscriptions matched one event: the threshold gate rejected s1, and s2
\* was evaluated through all gates and got its alert
C29_Witness ==
    /\ lastProc.op = "process_event"
    /\ lastProc.failed = "none"
    /\ lastProc.matched = {"s1", "s2"}
    /\ lastProc.visited = {"s1", "s2"}
    /\ lastProc.created = {"s2"}
    /\ ~evaluate_threshold(subscriptions["s1"],
                           ProcEvent(lastProc.height, lastProc.li).decoded_data)

\* C30 (SpecStreak). A cooldown-suppressed alert consumes the hysteresis streak:
\* when process_event has the hysteresis check return true for a subscription and
\* check_and_set return false, no hysteresis state is stored for the subscription
\* after the call, and the alert created next for it completes N consecutive
\* blocks observed after the suppressed one.
C30_SuppressedAlertConsumesStreak ==
    lastProc.op = "process_event" =>
        /\ \A s \in lastProc.suppressed : states[s] = NoState
        /\ \A s \in lastProc.created \cap lastProc.afterSuppressed :
               lastProc.run[s] >= RequiredN(s)

\* The first half of C30 alone: the state is gone after a suppressed alert
C30_StateConsumed ==
    lastProc.op = "process_event" =>
        \A s \in lastProc.suppressed : states[s] = NoState

C30_Suppression ==
    /\ lastProc.op = "process_event"
    /\ lastProc.suppressed # {}

C30_AlertAfterSuppression ==
    /\ lastProc.op = "process_event"
    /\ lastProc.created \cap lastProc.afterSuppressed # {}
    /\ \A s \in lastProc.created : lastProc.run[s] >= RequiredN(s)

\* C31 (SpecClear). Cooldown clear: a clear(sub) that succeeds removes the key of
\* sub and leaves all other keys as they were, the check_and_set(sub) that
\* follows it is answered true, and an update that changes the channel or the
\* threshold configuration of a subscription leaves the subscription without a
\* cooldown key.
C31_CooldownClear ==
    [][/\ (lastCall'.op = "clear" /\ lastCall'.ret = "ok" /\ lastCall' # lastCall) =>
             kv' = [kv EXCEPT ![lastCall'.sub] = None]
       /\ (/\ lastCall.op = "clear" /\ lastCall.ret = "ok"
           /\ lastCall'.op = "check_and_set" /\ lastCall'.sub = lastCall.sub
           /\ lastCall'.ret # "err") =>
             lastCall'.ret = "true"
       /\ (/\ lastCall'.op = "update" /\ lastCall' # lastCall
           /\ (lastCall'.channel \/ lastCall'.threshold)) =>
             kv'[lastCall'.sub] = None]_vars

\* The first two parts of C31 alone: what clear does
C31_ClearRemovesKey ==
    [][/\ (lastCall'.op = "clear" /\ lastCall'.ret = "ok" /\ lastCall' # lastCall) =>
             kv' = [kv EXCEPT ![lastCall'.sub] = None]
       /\ (/\ lastCall.op = "clear" /\ lastCall.ret = "ok"
           /\ lastCall'.op = "check_and_set" /\ lastCall'.sub = lastCall.sub
           /\ lastCall'.ret # "err") =>
             lastCall'.ret = "true"]_vars

\* clear removed a key while the other subscription kept its key
C31_Cleared ==
    /\ lastCall.op = "clear" /\ lastCall.ret = "ok"
    /\ lastCall.before[lastCall.sub] # None
    /\ kv[lastCall.sub] = None
    /\ \E s \in SubIds : kv[s] # None

\* A step of the polling loop: one cycle at height current_block
PollStep ==
    /\ pc = "loop"
    /\ lastCycle'.outcome # "none"
    /\ lastCycle'.height = current_block
    /\ <<head, ver, kind>>' = <<head, ver, kind>>

\* The cycle ended at the header fetch: the call failed or found no block
FetchFailed(cycle) == cycle.outcome = "retry" /\ cycle.detector = "none"

\* C32 (Spec). Block not yet available: a cycle whose header fetch of height h
\* fails or finds no block (as for every height above the head) persists no
\* event, leaves cursor and detector window unchanged and keeps the loop at h,
\* and the cycle after it polls the same height h.
C32_BlockNotYetAvailable ==
    [][/\ (PollStep /\ get_block_by_number(current_block) = None) =>
             FetchFailed(lastCycle')
       /\ (PollStep /\ FetchFailed(lastCycle')) =>
             /\ events' = events
             /\ indexer_state' = indexer_state
             /\ window' = window
             /\ pc' = "loop"
             /\ current_block' = current_block
       /\ (PollStep /\ FetchFailed(lastCycle)) =>
             lastCycle'.height = lastCycle.height]_vars

\* The block above the head was polled after a block was ingested: the cursor,
\* the window and the loop's height are as the ingesting cycle left them
C32_Witness ==
    /\ pc = "loop"
    /\ FetchFailed(lastCycle)
    /\ lastCycle.height = head + 1
    /\ current_block = lastCycle.height
    /\ indexer_state[PollerChain] = head
    /\ window # <<>>
    /\ events # <<>>

\* C33 (Spec). Oracle error during the divergence walk: the cycle in which
\* check_and_record returns the error leaves the window as it was, marks no
\* event reorged (the store and the cursor are unchanged) and keeps the loop at
\* its height; and the next cycle that fetches the header, at the same height,
\* finds the parent mismatch again (it reports a reorg, or the walk fails again).
C33_OracleErrorRetried ==
    [][/\ (PollStep /\ lastCycle'.detector = "err") =>
             /\ lastCycle'.outcome = "retry"
             /\ window' = window
             /\ events' = events
             /\ indexer_state' = indexer_state
             /\ pc' = "loop"
             /\ current_block' = current_block
       /\ (PollStep /\ lastCycle.detector = "err") =>
             /\ lastCycle'.height = lastCycle.height
             /\ lastCycle'.detector # "none" =>
                   (lastCycle'.detector = "err" \/ lastCycle'.reorg # None)]_vars

\* The walk failed at a height whose predecessor is stored with events not
\* marked reorged, and the loop is still at that height
C33_Witness ==
    /\ pc = "loop"
    /\ lastCycle.detector = "err"
    /\ current_block = lastCycle.height
    /\ \E i \in 1..Len(window) : window[i][1] = current_block - 1
    /\ \E i \in 1..Len(events) :
          events[i].block_number = current_block - 1 /\ ~events[i].is_reorged

\* Every decoded event of the block canonical at height g has its row in store
StoredBlock(store, g) ==
    \A k \in 1..Len(CanonicalEvents(g)) :
        \E i \in 1..Len(store) :
            /\ store[i].tx_hash = CanonicalEvents(g)[k].tx_hash
            /\ store[i].log_index = CanonicalEvents(g)[k].log_index

\* C34 (Spec). Cursor follows persistence: a cycle at height h writes the cursor
\* only as h and only when the logs of block h were fetched and every event
\* decoded from them is in the event store when the cursor is written, and a
\* cycle that fetched the logs of a block without events writes the cursor too.
C34_CursorFollowsPersistence ==
    [][/\ (PollStep /\ lastCycle'.outcome = "ok") =>
             /\ indexer_state'[PollerChain] = current_block
             /\ lastCycle'.detector = "ok" /\ lastCycle'.reorg = None
             /\ StoredBlock(events', current_block)
       /\ (PollStep /\ indexer_state' # indexer_state) =>
             lastCycle'.outcome = "ok"]_vars

\* C34 on the cycles without a reorg report
C34_CursorFollowsAcceptedBlock ==
    [][/\ (PollStep /\ lastCycle'.outcome = "ok" /\ lastCycle'.reorg = None) =>
             /\ indexer_state'[PollerChain] = current_block
             /\ lastCycle'.detector = "ok"
             /\ StoredBlock(events', current_block)
       /\ (PollStep /\ indexer_state' # indexer_state) =>
             lastCycle'.outcome = "ok"]_vars

\* C35 (SpecRace). Deactivation racing with event processing: the matcher query
\* of a process_event call returns no subscription that is inactive when the
\* query runs, and the call creates alerts only for subscriptions its query
\* returned, at most one each; so a call that starts after a deactivation
\* creates no alert for the subscription, and a call whose query ran before it
\* may still create one.
C35_DeactivationRace ==
    [][/\ (lastProc.op # "query" /\ lastProc'.op = "query") =>
             \A s \in SubIds : ~sub_rows[s].active => s \notin lastProc'.matched
       /\ (lastProc.op = "query" /\ lastProc'.op = "process_event") =>
             /\ lastProc'.created \subseteq lastProc.matched
             /\ \A s \in SubIds :
                   /\ Cardinality(AlertsOf(alerts', s))
                         <= Cardinality(AlertsOf(alerts, s)) + 1
                   /\ s \notin lastProc.matched =>
                         AlertsOf(alerts', s) = AlertsOf(alerts, s)
       /\ (lastProc.op = "query" /\ lastProc'.op = "query") =>
             lastProc' = lastProc]_vars

\* A subscription was deactivated after the query of a call had returned its
\* row, and the call created an alert for it
C35_Witness ==
    /\ lastProc.op = "process_event"
    /\ lastProc.created \cap lastProc.stale # {}

\* C36 (Spec). Detector window well-formedness: the heights of the window
\* increase strictly from oldest to newest (so no height has two entries), also
\* after cycles that failed once the detector had recorded the block.
C36_WindowWellFormed ==
    \A i, j \in 1..Len(window) : i < j => window[i][1] < window[j][1]

\* The weaker order that holds: the heights of the window never decrease
C36_WindowHeightsNeverDecrease ==
    \A i, j \in 1..Len(window) : i < j => window[i][1] <= window[j][1]

\* A reorg was reported in this run with target lastReorg.from by the cycle at
\* lastReorg.at, the chain has not reorganised since, and an event stored at a
\* height from the target up to that cycle's height is not marked reorged
RollbackPending ==
    /\ lastReorg # NoReorg
    /\ \E i \in 1..Len(events) :
          /\ events[i].chain = PollerChain
          /\ events[i].block_number >= lastReorg.from
          /\ events[i].block_number < lastReorg.at
          /\ ~events[i].is_reorged

\* C37 (SpecLive). A reported reorg is never lost: when check_and_record has
\* returned a rollback target r, the events stored at heights from r on are
\* eventually marked is_reorged = true (unless the poller is stopped or the
\* chain reorganises again first), also when the first rollback write fails.
C37_ReportedReorgNeverLost == RollbackPending ~> ~RollbackPending

\* C38 (SpecProc). Chain isolation of matching: the subscriptions the matcher
\* returns for an event, and those process_event creates an alert for, are on a
\* monitored address registered for the chain of the event.
C38_ChainIsolation ==
    lastProc.op = "process_event" =>
        \A s \in lastProc.matched \cup lastProc.created :
            MonitoredAddresses[sub_rows[s].address_id].chain = LastEvent.chain

\* What does hold: the matched subscriptions are on the hex address of the event
C38_AddressIsolation ==
    lastProc.op = "process_event" =>
        \A s \in lastProc.matched \cup lastProc.created :
            MonitoredAddresses[sub_rows[s].address_id].address = LastEvent.address

\* The alert rows of s among rows that have a pending notification in notes
NotifiedAlertsOf(rows, notes, s) ==
    {i \in AlertsOf(rows, s) :
        \E j \in 1..Len(notes) :
            notes[j].alert_id = rows[i].id /\ notes[j].status = "pending"}

\* C39 (SpecProc). The cooldown is consumed only together with an alert: when a
\* process_event call has set the cooldown key of a subscription, the call has
\* also written an alert row with its pending notification row for that
\* subscription, however the call ends.
C39_CooldownOnlyWithAlert ==
    [][ProcessEventStep =>
          \A s \in SubIds :
              (kv[s] = None /\ kv'[s] # None) =>
                  NotifiedAlertsOf(alerts', notifications', s)
                     \ NotifiedAlertsOf(alerts, notifications, s) # {}]_vars

\* C39 on the calls that return Ok
C39_CooldownWithAlertWhenOk ==
    [][(ProcessEventStep /\ lastProc'.result = "ok") =>
          \A s \in SubIds :
              (kv[s] = None /\ kv'[s] # None) =>
                  NotifiedAlertsOf(alerts', notifications', s)
                     \ NotifiedAlertsOf(alerts, notifications, s) # {}]_vars

\* The operator stopped the poller: ctrl_c won the select! of main
UserStopped == pc = "stopped" /\ lastCycle.outcome \in {"none", "cancelled"}

\* C40 (SpecProgress). Progress: when every height is eventually mined and no call
\* fails forever, the cursor eventually reaches every height the loop is at,
\* unless the operator stops the poller; also when reorgs are reported.
C40_Progress ==
    \A h \in Heights :
        (pc = "loop" /\ current_block = h)
            ~> (indexer_state[PollerChain] >= h \/ UserStopped)

\* What holds on every step: a cycle in which no call fails writes its height
\* as the cursor and moves the loop to the next height, with or without a reorg
\* report, and no other cycle moves the loop
C40_SuccessfulCycleAdvances ==
    [][/\ (PollStep /\ lastCycle'.outcome = "ok") =>
             /\ indexer_state'[PollerChain] = current_block
             /\ current_block' = current_block + 1
             /\ pc' = "loop"
       /\ (PollStep /\ lastCycle'.outcome = "retry") =>
             (current_block' = current_block /\ pc' = "loop")]_vars

=============================================================================
